---- MODULE Spec2Model ----
(***************************************************************************)
(* Connection authorization and downstream token brokering of the gateway. *)
(*                                                                         *)
(*   TokenBroker  acquireTokenSilent / exchangeTokenOBO /                  *)
(*                acquireDownstreamToken with the module-level tokenCache  *)
(*                (specification SpecBroker)                               *)
(*   Authorizer   authorizeGatewayConnect (specification SpecAuth)         *)
(*                                                                         *)
(* Optional values (undefined / null in the source) are sequences of       *)
(* length at most one: None is <<>>, Some(x) is <<x>>.  Instants are       *)
(* milliseconds, as Date.now() returns them.                               *)
(***************************************************************************)
EXTENDS Integers, Sequences, FiniteSets, TLC

VARIABLES
    now,            \* the clock read by Date.now(), in ms
    AZURE_AD_CONFIG,\* clientId / clientSecret / tenantId read from the environment
    tokenCache,     \* Map<string, CachedToken>
    issued,         \* number of access tokens the token endpoint has issued
    fetched,        \* history: <<operation, scopes>> -> the last successful fetch
    call,           \* per caller: the broker call in progress
    event,          \* history: what the last broker step read and returned
    authPc,         \* position of the connection attempt in authorizeGatewayConnect
    authIn,         \* inputs of the connection attempt
    authOidc,       \* the verifier's answer kept by the OIDC check, if it ran
    authTrace,      \* history: the checks evaluated so far, in order
    authResult,     \* the AuthResult (or the exception) of the attempt
    oidcVerifier,   \* createOidcVerifier: its position, config, key-set location,
                    \* and the discovery request it sent with the answer it got
    verifyCall,     \* verifier.verify(token): its position, token and result
    sessionStorage, \* web UI: the tab's stored OidcTokens and PKCE state
    refreshInFlight,\* web UI: the promise of the refresh in progress, if any
    uiPage,         \* web UI: the page (handleConnected): location, position, logins
    uiCall,         \* web UI: per caller, the token call in progress
    tokenRequests,  \* web UI: the requests to the token endpoint in flight
    uiEvent,        \* history: what the last step of the web UI did
    refreshTimer,   \* web UI: the handle of the proactive refresh timer, or null
    timers,         \* web UI: the window's pending timeouts, the timer callbacks
                    \* that await a refresh, and who last asked for the timer
    timerEvent,     \* history: the timer calls of the last step, in order
    ECS_CONFIG,     \* search tool: the service credentials read from the environment
    ssaTokenCache,  \* search tool: the cached service token
    ssaCall,        \* search tool: getSSAToken in progress and its last outcome
    toolCall        \* downstream tools: the execute call in progress, the requests
                    \* it sent to its API, and what it returned

brokerVars == <<now, AZURE_AD_CONFIG, tokenCache, issued, fetched, call, event>>
authVars == <<authPc, authIn, authOidc, authTrace, authResult>>
oidcVars == <<oidcVerifier, verifyCall>>
uiVars == <<sessionStorage, refreshInFlight, uiPage, uiCall, tokenRequests, uiEvent,
            refreshTimer, timers, timerEvent>>
ssaVars == <<ECS_CONFIG, ssaTokenCache, ssaCall>>
toolVars == <<toolCall>>
vars == <<now, AZURE_AD_CONFIG, tokenCache, issued, fetched, call, event,
          authPc, authIn, authOidc, authTrace, authResult, oidcVerifier, verifyCall,
          sessionStorage, refreshInFlight, uiPage, uiCall, tokenRequests, uiEvent,
          refreshTimer, timers, timerEvent,
          ECS_CONFIG, ssaTokenCache, ssaCall, toolCall>>

None == <<>>
Some(x) == <<x>>

(***************************************************************************)
(* Bounds of the model.                                                    *)
(***************************************************************************)
\* the token endpoint issues at most this many access tokens in a run
MaxIssued == 2

\* the callers that may have a broker call in progress at the same time
Callers == {"c1", "c2"}

\* the callers SpecBroker lets call
BrokerCallers == {"c1"}

\* the instants the clock takes (ms): 0, the end of the usable window of a
\* 301 s token fetched at 0, and that of a 3600 s token fetched at 0
Instants == {0, 1000, 3300000}

\* refresh credentials and assertions of two end users
RefreshTokens == {"rtA", "rtB"}
Assertions == {"asA", "asB"}

\* targetScopes as callers pass them: a string (isArray = FALSE, one item)
\* or an array of strings
ScopeInputs ==
    { [isArray |-> FALSE, items |-> <<"a b">>],
      [isArray |-> TRUE, items |-> <<"a", "b">>] }

\* expires_in of a token response: absent, or the buffer + 1 s
ExpiresInValues == {None, Some(301)}

\* what the token endpoint may answer to one POST
\* (kind "throw": the fetch or the parsing of its body raised, body is the
\* message of the error)
TokenResponses(tok) ==
    { [kind |-> "ok", status |-> 200, statusText |-> "OK", body |-> "",
       access_token |-> Some(tok), expires_in |-> e] : e \in ExpiresInValues }
    \cup { [kind |-> "ok", status |-> 200, statusText |-> "OK", body |-> "",
            access_token |-> None, expires_in |-> None],
           [kind |-> "ok", status |-> 200, statusText |-> "OK", body |-> "",
            access_token |-> Some(""), expires_in |-> None],
           [kind |-> "http", status |-> 400, statusText |-> "Bad Request",
            body |-> "invalid_grant", access_token |-> None, expires_in |-> None],
           [kind |-> "http", status |-> 503, statusText |-> "Service Unavailable",
            body |-> "", access_token |-> None, expires_in |-> None],
           [kind |-> "throw", status |-> 0, statusText |-> "", body |-> "timeout",
            access_token |-> None, expires_in |-> None] }

(***************************************************************************)
(* TokenBroker: the token cache.                                           *)
(***************************************************************************)
TOKEN_EXPIRY_BUFFER_MS == 5 * 60 * 1000

DEFAULT_EXPIRES_IN == 3600

\* tokenCache.get(cacheKey): undefined when the key was never set
CacheGet(cacheKey) ==
    IF cacheKey \in DOMAIN tokenCache THEN Some(tokenCache[cacheKey]) ELSE None

\* mutant: the comparison with the buffered instant is not strict
getCachedToken_NotStrict(cacheKey) ==
    LET cached == CacheGet(cacheKey) IN
    IF cached # None /\ cached[1].expiresAt >= now + TOKEN_EXPIRY_BUFFER_MS
    THEN Some(cached[1].accessToken)
    ELSE None

getCachedToken(cacheKey) ==
    LET cached == CacheGet(cacheKey) IN
    IF cached # None /\ cached[1].expiresAt > now + TOKEN_EXPIRY_BUFFER_MS
    THEN Some(cached[1].accessToken)
    ELSE None

\* mutant: an existing entry is kept instead of being overwritten
setCachedToken_KeepsOld(cacheKey, accessToken, expiresIn) ==
    IF cacheKey \in DOMAIN tokenCache THEN tokenCache
    ELSE (cacheKey :> [accessToken |-> accessToken, expiresAt |-> now + expiresIn * 1000])
         @@ tokenCache

\* mutant: an entry that is still usable is kept, the first write wins
setCachedToken_KeepsUsable(cacheKey, accessToken, expiresIn) ==
    IF getCachedToken(cacheKey) # None THEN tokenCache
    ELSE [k \in DOMAIN tokenCache \cup {cacheKey} |->
            IF k = cacheKey
            THEN [accessToken |-> accessToken, expiresAt |-> now + expiresIn * 1000]
            ELSE tokenCache[k]]

\* the cache after setCachedToken(cacheKey, accessToken, expiresIn)
setCachedToken(cacheKey, accessToken, expiresIn) ==
    [k \in DOMAIN tokenCache \cup {cacheKey} |->
        IF k = cacheKey
        THEN [accessToken |-> accessToken, expiresAt |-> now + expiresIn * 1000]
        ELSE tokenCache[k]]

\* Array.prototype.join(" ")
RECURSIVE JoinSpace(_)
JoinSpace(items) ==
    IF Len(items) = 0 THEN ""
    ELSE IF Len(items) = 1 THEN items[1]
    ELSE items[1] \o " " \o JoinSpace(Tail(items))

\* Array.isArray(targetScopes) ? targetScopes.join(" ") : targetScopes
JoinScopes(targetScopes) ==
    IF targetScopes.isArray THEN JoinSpace(targetScopes.items) ELSE targetScopes.items[1]

\* const cacheKey = `silent:${scopes}` in acquireTokenSilent(refreshToken, ..)
SilentCacheKey(refreshToken, scopes) == "silent:" \o scopes

\* mutant: the key is derived from the assertion and the scopes
OboCacheKey_PerUser(userToken, scopes) == "obo:" \o userToken \o ":" \o scopes

\* const cacheKey = `obo:${scopes}` in exchangeTokenOBO(userToken, ..)
OboCacheKey(userToken, scopes) == "obo:" \o scopes

\* mutant: only the client id is required
NotConfigured_ClientIdOnly ==
    AZURE_AD_CONFIG.clientId = ""

\* !clientId || !clientSecret || !tenantId
NotConfigured ==
    \/ AZURE_AD_CONFIG.clientId = ""
    \/ AZURE_AD_CONFIG.clientSecret = ""
    \/ AZURE_AD_CONFIG.tenantId = ""

NOT_CONFIGURED_ERROR ==
    "Azure AD credentials not configured. Set AZURE_AD_CLIENT_ID, AZURE_AD_CLIENT_SECRET, AZURE_AD_TENANT_ID."

OUR_APP_SCOPE == "api://" \o AZURE_AD_CONFIG.clientId \o "/User.Access"

Ok(accessToken) == [ok |-> TRUE, accessToken |-> accessToken, error |-> ""]
Err(error) == [ok |-> FALSE, accessToken |-> "", error |-> error]

(***************************************************************************)
(* TokenBroker: one call in progress per caller.  A call is split at its   *)
(* awaits: the part up to the fetch, the part after the response, and for  *)
(* acquireDownstreamToken the resumption after acquireTokenSilent.         *)
(***************************************************************************)
IdleCall ==
    [pc |-> "idle", op |-> "none", cred |-> "", targetScopes |-> None,
     assertion |-> "", scopes |-> "", cacheKey |-> "", reqs |-> 0,
     silentResult |-> None]

\* history record of one getCachedToken call and of what followed it
ReadOf(cacheKey, requested) ==
    [cacheKey |-> cacheKey, entry |-> CacheGet(cacheKey), at |-> now,
     hit |-> getCachedToken(cacheKey) # None, requested |-> requested]

\* history record of one step of caller p's call c: the operation that ran
\* (kind, with its credential, scopes and cache key), the cache read it made
\* (if any), the result that operation returned in this step (if any), and
\* the result the call returned to its caller (if it completed)
EventOf(p, c, step, kind, read, returned, result) ==
    Some([caller |-> p, op |-> c.op, cred |-> c.cred, targetScopes |-> c.targetScopes,
          step |-> step, kind |-> kind, assertion |-> c.assertion, scopes |-> c.scopes,
          cacheKey |-> c.cacheKey, read |-> read, returned |-> returned,
          result |-> result, reqs |-> c.reqs])

\* the part of acquireTokenSilent / exchangeTokenOBO before the fetch:
\* "hit" with the cached token, "error" when not configured, else "fetch"
StageStart(cacheKey) ==
    LET cached == getCachedToken(cacheKey) IN
    IF cached # None /\ cached[1] # ""
    THEN [to |-> "hit", result |-> Ok(cached[1])]
    ELSE IF NotConfigured
    THEN [to |-> "error", result |-> Err(NOT_CONFIGURED_ERROR)]
    ELSE [to |-> "fetch", result |-> Err("")]

\* the error texts of the two operations
ErrorTexts(kind) ==
    IF kind = "silent"
    THEN [http |-> "Silent token acquisition error (",
          missing |-> "No access_token in refresh response",
          failed |-> "Silent token acquisition failed: "]
    ELSE [http |-> "OBO token error (",
          missing |-> "No access_token in OBO response",
          failed |-> "OBO exchange failed: "]

\* the part of acquireTokenSilent / exchangeTokenOBO after the fetch settled
StageResult(kind, resp) ==
    IF resp.kind = "throw" THEN Err(ErrorTexts(kind).failed \o resp.body)
    ELSE IF resp.kind = "http"
    THEN Err(ErrorTexts(kind).http \o ToString(resp.status) \o "): "
             \o (IF resp.body # "" THEN resp.body ELSE resp.statusText))
    ELSE IF resp.access_token = None \/ resp.access_token = Some("")
    THEN Err(ErrorTexts(kind).missing)
    ELSE Ok(resp.access_token[1])

\* mutant: a response that declares no lifetime is given none
ExpiresIn_NoDefault(resp) == IF resp.expires_in = None THEN 0 ELSE resp.expires_in[1]

\* data.expires_in ?? 3600
ExpiresIn(resp) == IF resp.expires_in = None THEN DEFAULT_EXPIRES_IN ELSE resp.expires_in[1]

\* one of the two operations called on its own, up to its fetch
StandaloneStart(p, op, cred, targetScopes) ==
    /\ call[p].pc = "idle"
    /\ LET scopes == JoinScopes(targetScopes)
           cacheKey == IF op = "silent" THEN SilentCacheKey(cred, scopes)
                                        ELSE OboCacheKey(cred, scopes)
           st == StageStart(cacheKey)
           c == [IdleCall EXCEPT !.op = op, !.cred = cred,
                     !.targetScopes = Some(targetScopes), !.assertion = cred,
                     !.scopes = scopes, !.cacheKey = cacheKey,
                     !.reqs = IF st.to = "fetch" THEN 1 ELSE 0]
           read == Some(ReadOf(cacheKey, st.to = "fetch"))
       IN IF st.to = "fetch"
          THEN /\ call' = [call EXCEPT ![p] =
                     [c EXCEPT !.pc = IF op = "silent" THEN "silentFetch" ELSE "oboFetch"]]
               /\ event' = EventOf(p, c, "start", op, read, None, None)
          ELSE /\ call' = [call EXCEPT ![p] = IdleCall]
               /\ event' = EventOf(p, c, "start", op, read, Some(st.result), Some(st.result))
    /\ UNCHANGED <<now, AZURE_AD_CONFIG, tokenCache, issued, fetched>>
    /\ UNCHANGED authVars
    /\ UNCHANGED oidcVars
    /\ UNCHANGED uiVars
    /\ UNCHANGED ssaVars
    /\ UNCHANGED toolVars

\* acquireTokenSilent(refreshToken, targetScopes), up to its fetch
AcquireTokenSilentStart(p, refreshToken, targetScopes) ==
    StandaloneStart(p, "silent", refreshToken, targetScopes)

\* exchangeTokenOBO(userToken, targetScopes), up to its fetch
ExchangeTokenOBOStart(p, userToken, targetScopes) ==
    StandaloneStart(p, "obo", userToken, targetScopes)

\* acquireDownstreamToken(refreshToken, targetScopes), up to the first await:
\* acquireTokenSilent(refreshToken, OUR_APP_SCOPE) up to its fetch
acquireDownstreamToken(p, refreshToken, targetScopes) ==
    /\ call[p].pc = "idle"
    /\ LET cacheKey == SilentCacheKey(refreshToken, OUR_APP_SCOPE)
           st == StageStart(cacheKey)
           c == [IdleCall EXCEPT !.op = "downstream", !.cred = refreshToken,
                     !.targetScopes = Some(targetScopes), !.assertion = refreshToken,
                     !.scopes = OUR_APP_SCOPE, !.cacheKey = cacheKey,
                     !.reqs = IF st.to = "fetch" THEN 1 ELSE 0]
       IN /\ call' = [call EXCEPT ![p] =
                IF st.to = "fetch"
                THEN [c EXCEPT !.pc = "silentFetch"]
                ELSE [c EXCEPT !.pc = "silentResolved", !.silentResult = Some(st.result)]]
          /\ event' = EventOf(p, c, "start", "silent",
                              Some(ReadOf(cacheKey, st.to = "fetch")),
                              IF st.to = "fetch" THEN None ELSE Some(st.result), None)
    /\ UNCHANGED <<now, AZURE_AD_CONFIG, tokenCache, issued, fetched>>
    /\ UNCHANGED authVars
    /\ UNCHANGED oidcVars
    /\ UNCHANGED uiVars
    /\ UNCHANGED ssaVars

\* acquireDownstreamToken(refreshToken, targetScopes) called by a caller
\* other than a tool
AcquireDownstreamTokenStart(p, refreshToken, targetScopes) ==
    /\ acquireDownstreamToken(p, refreshToken, targetScopes)
    /\ UNCHANGED toolVars

(***************************************************************************)
(* Downstream tools: execute(_toolCallId, args) of nfd_desk, meeting_room, *)
(* outlook_email and people_search.  args.action is a string, as the       *)
(* schema of each tool requires.  The record of a call keeps its inputs,   *)
(* what acquireDownstreamToken returned to it (tokenResult), the number of *)
(* token-endpoint requests that call made (reqs), the requests the tool    *)
(* sent to its API with their Authorization header (sent), and the value   *)
(* execute returned or threw (result).                                     *)
(***************************************************************************)
Tools == {"nfd_desk", "meeting_room", "outlook_email", "people_search"}

\* NFD_ACTIONS, MEETING_ROOM_ACTIONS, OUTLOOK_ACTIONS, PEOPLE_ACTIONS
ToolActions(tool) ==
    CASE tool = "nfd_desk" ->
             {"list_locations", "available_desks", "my_reservations", "book_desk"}
      [] tool = "meeting_room" -> {"search_rooms", "check_availability", "book_room"}
      [] tool = "outlook_email" -> {"list_emails", "read_email", "search_emails"}
      [] tool = "people_search" -> {"search_people", "get_profile"}

\* the targetScopes each tool passes: NFD_CONFIG.scope (a string of the
\* environment, not empty when the tool exists), GRAPH_CONFIG.scopes (an
\* array), OUTLOOK_SCOPES, PEOPLE_SEARCH_SCOPES
ToolScopes(tool) ==
    CASE tool = "nfd_desk" -> [isArray |-> FALSE, items |-> <<"api://nfd/.default">>]
      [] tool = "meeting_room" ->
             [isArray |-> TRUE,
              items |-> <<"https://graph.microsoft.com/Calendars.ReadWrite",
                          "https://graph.microsoft.com/Group.Read.All">>]
      [] tool = "outlook_email" ->
             [isArray |-> FALSE, items |-> <<"https://graph.microsoft.com/Mail.Read">>]
      [] tool = "people_search" ->
             [isArray |-> FALSE, items |-> <<"https://graph.microsoft.com/User.Read.All">>]

\* the error each tool's catch block reports
ToolErrorLabel(tool) ==
    CASE tool = "nfd_desk" -> "nfd_api_error"
      [] tool = "meeting_room" -> "meeting_room_error"
      [] tool = "outlook_email" -> "outlook_email_error"
      [] tool = "people_search" -> "people_search_error"

\* the actions whose handler checks its parameters and throws before it
\* sends anything (a required parameter, the JSON of reservation_body, the
\* list of room emails)
CheckedActions ==
    {"available_desks", "book_desk", "check_availability", "book_room",
     "read_email", "search_emails"}

\* the requests handleSearchPeople sends at most: three strategies when a
\* query is given, /me/people and /me when it is not; every other handler
\* sends one
MaxRequestsOf(action, args) ==
    IF action = "search_people" THEN (IF args = "given" THEN 3 ELSE 2) ELSE 1

IdleTool ==
    [pc |-> "idle", caller |-> "", tool |-> "", action |-> "", args |-> "",
     getter |-> [throws |-> FALSE, value |-> None], tokenResult |-> None,
     reqs |-> 0, sent |-> <<>>, result |-> None]

\* jsonResult({ error, .. }), jsonResult({ action, result }) with what the
\* handler returned, or the exception execute threw
ToolReturned(t, error, body) ==
    [t EXCEPT !.pc = "idle",
              !.result = Some([thrown |-> FALSE, error |-> error, body |-> body])]
ToolThrew(t) ==
    [t EXCEPT !.pc = "idle",
              !.result = Some([thrown |-> TRUE, error |-> "", body |-> ""])]

\* fetch(url, { headers: { Authorization: `Bearer ${token}` } }) of
\* callNfdApi / callGraphApi / graphGet; handleSearchRooms sends no
\* Authorization header
ToolFetch(t, authorization) ==
    [t EXCEPT !.pc = "api",
              !.sent = Append(t.sent, [tool |-> t.tool, action |-> t.action,
                                       authorization |-> authorization])]

\* switch (action): the handler of the action up to its first fetch, or
\* invalid_action; an exception of the handler is caught by execute
HandlerStart(t, token) ==
    IF t.action \notin ToolActions(t.tool)
    THEN ToolReturned(t, "invalid_action", "")
    ELSE IF t.action \in CheckedActions /\ t.args = "rejected"
    THEN ToolReturned(t, ToolErrorLabel(t.tool), "")
    ELSE ToolFetch(t, Some(token))

\* mutant: the handler runs whatever acquireDownstreamToken returned
AfterAcquireDownstreamToken_IgnoresFailure(t, ev) ==
    LET t1 == [t EXCEPT !.reqs = ev.reqs] IN
    IF ev.result = None THEN t1
    ELSE HandlerStart([t1 EXCEPT !.tokenResult = ev.result], ev.result[1].accessToken)

\* execute after a step of its acquireDownstreamToken call: it goes on
\* waiting, or the call returned and execute reports token_exchange_failed
\* or runs the handler with tokenResult.accessToken
AfterAcquireDownstreamToken(t, ev) ==
    LET t1 == [t EXCEPT !.reqs = ev.reqs] IN
    IF ev.result = None THEN t1
    ELSE LET tokenResult == ev.result[1]
             t2 == [t1 EXCEPT !.tokenResult = Some(tokenResult)]
         IN IF ~tokenResult.ok
            THEN ToolReturned(t2, "token_exchange_failed", "")
            ELSE HandlerStart(t2, tokenResult.accessToken)

\* the broker call of caller p made a step: the tool that awaits it resumes
ToolResumes(p) ==
    toolCall' = IF toolCall.pc = "token" /\ toolCall.caller = p
                THEN AfterAcquireDownstreamToken(toolCall, event'[1])
                ELSE toolCall

\* mutant: a request that failed is issued once more before the failure is
\* reported
TokenEndpointResponds_RetriesOnce(p, resp) ==
    /\ call[p].pc \in {"silentFetch", "oboFetch"}
    /\ LET c == call[p]
           kind == IF c.pc = "silentFetch" THEN "silent" ELSE "obo"
           r == StageResult(kind, resp)
       IN IF ~r.ok /\ c.reqs < 3
          THEN /\ call' = [call EXCEPT ![p] = [c EXCEPT !.reqs = c.reqs + 1]]
               /\ event' = EventOf(p, [c EXCEPT !.reqs = c.reqs + 1], "response", kind,
                                   None, None, None)
               /\ UNCHANGED <<tokenCache, issued, fetched>>
          ELSE /\ IF r.ok
                  THEN /\ tokenCache' = setCachedToken(c.cacheKey, r.accessToken, ExpiresIn(resp))
                       /\ issued' = issued + 1
                       /\ fetched' = (<<kind, c.scopes>> :>
                                          [cred |-> c.assertion, accessToken |-> r.accessToken,
                                           expires_in |-> resp.expires_in,
                                           expiresAt |-> now + ExpiresIn(resp) * 1000])
                                      @@ fetched
                  ELSE UNCHANGED <<tokenCache, issued, fetched>>
               /\ IF c.op = "downstream" /\ kind = "silent"
                  THEN /\ call' = [call EXCEPT ![p] =
                             [c EXCEPT !.pc = "silentResolved", !.silentResult = Some(r)]]
                       /\ event' = EventOf(p, c, "response", kind, None, Some(r), None)
                  ELSE /\ call' = [call EXCEPT ![p] = IdleCall]
                       /\ event' = EventOf(p, c, "response", kind, None, Some(r), Some(r))
    /\ UNCHANGED <<now, AZURE_AD_CONFIG>>
    /\ UNCHANGED authVars
    /\ UNCHANGED oidcVars
    /\ UNCHANGED uiVars
    /\ UNCHANGED ssaVars
    /\ ToolResumes(p)

\* mutant: a failed request removes the entry of the requested key
TokenEndpointResponds_ForgetsOnFailure(p, resp) ==
    /\ call[p].pc \in {"silentFetch", "oboFetch"}
    /\ LET c == call[p]
           kind == IF c.pc = "silentFetch" THEN "silent" ELSE "obo"
           r == StageResult(kind, resp)
       IN /\ IF r.ok
             THEN /\ tokenCache' = setCachedToken(c.cacheKey, r.accessToken, ExpiresIn(resp))
                  /\ issued' = issued + 1
                  /\ fetched' = (<<kind, c.scopes>> :>
                                     [cred |-> c.assertion, accessToken |-> r.accessToken,
                                      expires_in |-> resp.expires_in,
                                      expiresAt |-> now + ExpiresIn(resp) * 1000])
                                 @@ fetched
             ELSE /\ tokenCache' = [k \in DOMAIN tokenCache \ {c.cacheKey} |-> tokenCache[k]]
                  /\ UNCHANGED <<issued, fetched>>
          /\ IF c.op = "downstream" /\ kind = "silent"
             THEN /\ call' = [call EXCEPT ![p] =
                        [c EXCEPT !.pc = "silentResolved", !.silentResult = Some(r)]]
                  /\ event' = EventOf(p, c, "response", kind, None, Some(r), None)
             ELSE /\ call' = [call EXCEPT ![p] = IdleCall]
                  /\ event' = EventOf(p, c, "response", kind, None, Some(r), Some(r))
    /\ UNCHANGED <<now, AZURE_AD_CONFIG>>
    /\ UNCHANGED authVars
    /\ UNCHANGED oidcVars
    /\ UNCHANGED uiVars
    /\ UNCHANGED ssaVars
    /\ ToolResumes(p)

\* the fetch of the call in progress settles with resp; the rest of
\* acquireTokenSilent / exchangeTokenOBO runs
TokenEndpointResponds(p, resp) ==
    /\ call[p].pc \in {"silentFetch", "oboFetch"}
    /\ LET c == call[p]
           kind == IF c.pc = "silentFetch" THEN "silent" ELSE "obo"
           r == StageResult(kind, resp)
       IN /\ IF r.ok
             THEN /\ tokenCache' = setCachedToken(c.cacheKey, r.accessToken, ExpiresIn(resp))
                  /\ issued' = issued + 1
                  /\ fetched' = (<<kind, c.scopes>> :>
                                     [cred |-> c.assertion, accessToken |-> r.accessToken,
                                      expires_in |-> resp.expires_in,
                                      expiresAt |-> now + ExpiresIn(resp) * 1000])
                                 @@ fetched
             ELSE UNCHANGED <<tokenCache, issued, fetched>>
          /\ IF c.op = "downstream" /\ kind = "silent"
             THEN /\ call' = [call EXCEPT ![p] =
                        [c EXCEPT !.pc = "silentResolved", !.silentResult = Some(r)]]
                  /\ event' = EventOf(p, c, "response", kind, None, Some(r), None)
             ELSE /\ call' = [call EXCEPT ![p] = IdleCall]
                  /\ event' = EventOf(p, c, "response", kind, None, Some(r), Some(r))
    /\ UNCHANGED <<now, AZURE_AD_CONFIG>>
    /\ UNCHANGED authVars
    /\ UNCHANGED oidcVars
    /\ UNCHANGED uiVars
    /\ UNCHANGED ssaVars
    /\ ToolResumes(p)

\* mutant: the exchange is attempted whatever acquireTokenSilent returned
AcquireDownstreamTokenResume_AlwaysExchanges(p) ==
    /\ call[p].pc = "silentResolved"
    /\ LET c == call[p]
           silentResult == c.silentResult[1]
           scopes == JoinScopes(c.targetScopes[1])
           cacheKey == OboCacheKey(silentResult.accessToken, scopes)
           st == StageStart(cacheKey)
           c2 == [c EXCEPT !.assertion = silentResult.accessToken,
                      !.scopes = scopes, !.cacheKey = cacheKey,
                      !.reqs = IF st.to = "fetch" THEN c.reqs + 1 ELSE c.reqs,
                      !.silentResult = None]
           read == Some(ReadOf(cacheKey, st.to = "fetch"))
       IN IF st.to = "fetch"
          THEN /\ call' = [call EXCEPT ![p] = [c2 EXCEPT !.pc = "oboFetch"]]
               /\ event' = EventOf(p, c2, "resume", "obo", read, None, None)
          ELSE /\ call' = [call EXCEPT ![p] = IdleCall]
               /\ event' = EventOf(p, c2, "resume", "obo", read, Some(st.result), Some(st.result))
    /\ UNCHANGED <<now, AZURE_AD_CONFIG, tokenCache, issued, fetched>>
    /\ UNCHANGED authVars
    /\ UNCHANGED oidcVars
    /\ UNCHANGED uiVars
    /\ UNCHANGED ssaVars
    /\ ToolResumes(p)

\* acquireDownstreamToken resumes after acquireTokenSilent: returns its
\* failure, or runs exchangeTokenOBO(silentResult.accessToken, targetScopes)
AcquireDownstreamTokenResume(p) ==
    /\ call[p].pc = "silentResolved"
    /\ LET c == call[p]
           silentResult == c.silentResult[1]
           scopes == JoinScopes(c.targetScopes[1])
           cacheKey == OboCacheKey(silentResult.accessToken, scopes)
           st == StageStart(cacheKey)
           c2 == [c EXCEPT !.assertion = silentResult.accessToken,
                      !.scopes = scopes, !.cacheKey = cacheKey,
                      !.reqs = IF st.to = "fetch" THEN c.reqs + 1 ELSE c.reqs,
                      !.silentResult = None]
           read == Some(ReadOf(cacheKey, st.to = "fetch"))
       IN IF ~silentResult.ok
          THEN /\ call' = [call EXCEPT ![p] = IdleCall]
               /\ event' = EventOf(p, c, "resume", "none", None, None, Some(silentResult))
          ELSE IF st.to = "fetch"
          THEN /\ call' = [call EXCEPT ![p] = [c2 EXCEPT !.pc = "oboFetch"]]
               /\ event' = EventOf(p, c2, "resume", "obo", read, None, None)
          ELSE /\ call' = [call EXCEPT ![p] = IdleCall]
               /\ event' = EventOf(p, c2, "resume", "obo", read, Some(st.result), Some(st.result))
    /\ UNCHANGED <<now, AZURE_AD_CONFIG, tokenCache, issued, fetched>>
    /\ UNCHANGED authVars
    /\ UNCHANGED oidcVars
    /\ UNCHANGED uiVars
    /\ UNCHANGED ssaVars
    /\ ToolResumes(p)

\* time passes
Tick ==
    /\ \E t \in Instants : t > now /\ now' = t
    /\ event' = None
    /\ UNCHANGED <<AZURE_AD_CONFIG, tokenCache, issued, fetched, call>>
    /\ UNCHANGED authVars
    /\ UNCHANGED oidcVars
    /\ UNCHANGED uiVars
    /\ UNCHANGED ssaVars
    /\ UNCHANGED toolVars

\* process.env at module load
EnvConfigs ==
    { [clientId |-> "app", clientSecret |-> "s3", tenantId |-> "tid"],
      [clientId |-> "", clientSecret |-> "s3", tenantId |-> "tid"],
      [clientId |-> "app", clientSecret |-> "", tenantId |-> "tid"],
      [clientId |-> "app", clientSecret |-> "s3", tenantId |-> ""] }

\* no verifier is being created and no verify call is in progress
OidcIdle ==
    /\ oidcVerifier = [pc |-> "none", config |-> None, jwksUri |-> None,
                       JWKS |-> None, error |-> <<>>,
                       requested |-> None, response |-> None]
    /\ verifyCall = [pc |-> "idle", token |-> None, keys |-> None, at |-> 0, result |-> None]

\* web UI: nothing is stored in the tab, no page is loaded
UiIdle ==
    /\ sessionStorage = [tokens |-> None, pkce |-> None]
    /\ refreshInFlight = None
    /\ uiPage = [pc |-> "none", connected |-> FALSE, logins |-> 0, callbacks |-> {},
                 location |-> [path |-> "", query |-> FALSE], synced |-> FALSE,
                 polling |-> FALSE]
    /\ uiCall = [p \in {"u1", "u2"} |-> [op |-> "idle", awaits |-> ""]]
    /\ tokenRequests = {}
    /\ uiEvent = None
    /\ refreshTimer = None
    /\ timers = [pending |-> {}, running |-> <<>>, app |-> "none"]
    /\ timerEvent = <<>>

\* search tool: configured, no service token cached, no call in progress
SsaIdle ==
    /\ ECS_CONFIG = [clientId |-> "id", clientSecret |-> "secret", tokenUrl |-> "url"]
    /\ ssaTokenCache = None
    /\ ssaCall = [p \in {"t1", "t2"} |-> [pc |-> "idle", last |-> None]]

\* downstream tools: no execute call has been made
ToolIdle ==
    toolCall = IdleTool

AuthIdle ==
    /\ authPc = "idle"
    /\ authIn = None
    /\ authOidc = None
    /\ authTrace = <<>>
    /\ authResult = None

InitBroker ==
    /\ now = 0
    /\ AZURE_AD_CONFIG \in EnvConfigs
    /\ tokenCache = <<>>
    /\ issued = 0
    /\ fetched = <<>>
    /\ call = [p \in Callers |-> IdleCall]
    /\ event = None
    /\ AuthIdle
    /\ OidcIdle
    /\ UiIdle
    /\ SsaIdle
    /\ ToolIdle

\* the credentials of the end user each caller acts for
RefreshTokenOf == [p \in Callers |-> IF p = "c1" THEN "rtA" ELSE "rtB"]
AssertionOf == [p \in Callers |-> IF p = "c1" THEN "asA" ELSE "asB"]

\* the access token the endpoint issues next
NextToken == "at" \o ToString(issued + 1)

NextBroker ==
    \/ \E p \in BrokerCallers, rt \in RefreshTokens, s \in ScopeInputs :
           AcquireTokenSilentStart(p, rt, s)
    \/ \E p \in BrokerCallers, a \in Assertions, s \in ScopeInputs :
           ExchangeTokenOBOStart(p, a, s)
    \/ \E p \in BrokerCallers, s \in ScopeInputs :
           AcquireDownstreamTokenStart(p, RefreshTokenOf[p], s)
    \/ \E p \in BrokerCallers : \E resp \in TokenResponses(NextToken) :
           /\ resp.access_token \notin {None, Some("")} => issued < MaxIssued
           /\ TokenEndpointResponds(p, resp)
    \/ \E p \in BrokerCallers : AcquireDownstreamTokenResume(p)
    \/ Tick

SpecBroker == InitBroker /\ [][NextBroker]_vars

\* two callers use acquireTokenSilent and exchangeTokenOBO at the same time:
\* any step of one call may run between two steps of the other
NextRace ==
    \/ \E p \in Callers, s \in ScopeInputs :
           AcquireTokenSilentStart(p, RefreshTokenOf[p], s)
    \/ \E p \in Callers, s \in ScopeInputs :
           ExchangeTokenOBOStart(p, AssertionOf[p], s)
    \/ \E p \in Callers : \E resp \in TokenResponses(NextToken) :
           /\ resp.access_token \notin {None, Some("")} => issued < MaxIssued
           /\ TokenEndpointResponds(p, resp)
    \/ Tick

SpecRace == InitBroker /\ [][NextRace]_vars

(***************************************************************************)
(* Authorizer: authorizeGatewayConnect({auth, connectAuth, req,            *)
(* tailscaleWhois, oidcVerifier}).  One connection attempt at a time; the  *)
(* attempt is split at its awaits (the identity lookup, verifier.verify).  *)
(***************************************************************************)
Accepted(method, user) == [kind |-> "accepted", method |-> method, user |-> user, reason |-> ""]
Rejected(reason) == [kind |-> "rejected", method |-> "", user |-> None, reason |-> reason]
Threw == [kind |-> "threw", method |-> "", user |-> None, reason |-> ""]

\* the AuthConfig values: mode, the static secrets, allowTailscale
AuthConfigs ==
    [mode : {"token", "password", "oidc"},
     token : {None, Some("secret")},
     password : {None, Some("s3cr3t")},
     allowTailscale : BOOLEAN]

\* the ConnectAuth values: null, or any combination of the three credentials
ConnectAuths ==
    {None} \cup
    { Some(c) : c \in [token : {None, Some("secret"), Some("wrong")},
                       password : {None, Some("s3cr3t"), Some("wrong")},
                       oidcToken : {None, Some("jwt")}] }

NoHeaders == [host |-> "", forwardedFor |-> None, forwardedHost |-> None, userLogin |-> None]

\* the request metadata: no request, an object without socket and headers,
\* a direct local request whose Host is an overlay hostname, a request
\* forwarded by the overlay proxy, a direct request from a public address.
\* Addresses and host names are given by their class.
Requests ==
    { None,
      Some([socket |-> None, headers |-> None]),
      Some([socket |-> Some("loopback"),
            headers |-> Some([NoHeaders EXCEPT !.host = "overlay"])]),
      Some([socket |-> Some("loopback"),
            headers |-> Some([host |-> "local", forwardedFor |-> Some("overlay"),
                              forwardedHost |-> Some("overlay"), userLogin |-> Some("peter")])]),
      Some([socket |-> Some("public"),
            headers |-> Some([NoHeaders EXCEPT !.host = "other"])]) }

\* what the identity-proxy lookup resolves to
WhoisResults == {None, Some([login |-> "peter", name |-> "Peter"])}

\* the options of createMockOidcVerifier
MockOpts ==
    { [ok |-> None, user |-> None, reason |-> None],
      [ok |-> None, user |-> Some("sso-user@corp.com"), reason |-> None],
      [ok |-> Some(FALSE), user |-> None, reason |-> None],
      [ok |-> Some(FALSE), user |-> None, reason |-> Some("oidc_token_expired")] }

\* the verifiers a caller may supply: none, a mock, or one whose verify throws
Verifiers ==
    {None} \cup { Some([throws |-> FALSE, opts |-> o]) : o \in MockOpts }
           \cup { Some([throws |-> TRUE, opts |-> [ok |-> None, user |-> None, reason |-> None]]) }

\* createMockOidcVerifier(opts).verify(token)
createMockOidcVerifier(opts) ==
    IF opts.ok = Some(FALSE)
    THEN [ok |-> FALSE, user |-> "",
          reason |-> IF opts.reason = None THEN "oidc_token_invalid" ELSE opts.reason[1]]
    ELSE [ok |-> TRUE, user |-> IF opts.user = None THEN "oidc-user" ELSE opts.user[1],
          reason |-> ""]

\* connectAuth?.token, connectAuth?.password, connectAuth?.oidcToken
PresentedToken(connectAuth) == IF connectAuth = None THEN None ELSE connectAuth[1].token
PresentedPassword(connectAuth) == IF connectAuth = None THEN None ELSE connectAuth[1].password
PresentedOidcToken(connectAuth) == IF connectAuth = None THEN None ELSE connectAuth[1].oidcToken

\* mutant: the overlay host name is looked for in Host, not in the
\* forwarded host
IsOverlayProxyRequest_ByHost(req) ==
    IF req = None THEN "no"
    ELSE IF req[1].socket = None \/ req[1].headers = None THEN "no"
    ELSE IF /\ req[1].socket[1] = "loopback"
            /\ req[1].headers[1].forwardedFor = Some("overlay")
            /\ req[1].headers[1].host = "overlay"
         THEN "yes" ELSE "no"

\* mutant: the socket and the headers of the request are read unguarded;
\* "TypeError" stands for the exception the read raises
IsOverlayProxyRequest_Unguarded(req) ==
    IF req = None THEN "no"
    ELSE IF req[1].socket = None \/ req[1].headers = None THEN "TypeError"
    ELSE IF /\ req[1].socket[1] = "loopback"
            /\ req[1].headers[1].forwardedFor = Some("overlay")
            /\ req[1].headers[1].forwardedHost = Some("overlay")
         THEN "yes" ELSE "no"

\* the connection comes from an overlay address through the service's own
\* overlay proxy: "yes" or "no" ("TypeError" if reading the request raised)
IsOverlayProxyRequest(req) ==
    IF req = None THEN "no"
    ELSE IF req[1].socket = None \/ req[1].headers = None THEN "no"
    ELSE IF /\ req[1].socket[1] = "loopback"
            /\ req[1].headers[1].forwardedFor = Some("overlay")
            /\ req[1].headers[1].forwardedHost = Some("overlay")
         THEN "yes" ELSE "no"

\* mutant: the mode-specific check only compares the two secrets, so an
\* absent credential equals an absent configuration
StaticCheck_EqualityOnly(m, configured, presented) ==
    IF presented # configured THEN Rejected(m \o "_mismatch")
    ELSE Accepted(m, None)

\* mutant: the presented credential is compared before the configured secret
\* is looked at
StaticCheck_ComparesFirst(m, configured, presented) ==
    IF presented = None THEN Rejected(m \o "_missing")
    ELSE IF configured = None THEN Rejected(m \o "_missing_config")
    ELSE IF presented # configured THEN Rejected(m \o "_mismatch")
    ELSE Accepted(m, None)

\* the mode-specific check of mode m in {token, password}
StaticCheck(m, configured, presented) ==
    IF configured = None THEN Rejected(m \o "_missing_config")
    ELSE IF presented = None THEN Rejected(m \o "_missing")
    ELSE IF presented # configured THEN Rejected(m \o "_mismatch")
    ELSE Accepted(m, None)

\* the reasons mode = oidc may report when a token is presented and no
\* verifier is supplied
UnverifiedOidcReasons == {"oidc_token_invalid", "oidc_token_missing"}

\* mutant: mode = oidc reports a fixed reason instead of the verifier's
OidcModeCheck_FixedReason(presentedOidc, oidcResult, unverifiedReason) ==
    IF presentedOidc = None THEN Rejected("oidc_token_missing")
    ELSE IF oidcResult # None THEN Rejected("oidc_token_invalid")
    ELSE Rejected(unverifiedReason)

\* the mode-specific check of mode = oidc; oidcResult is the failure the OIDC
\* check kept, if it ran
OidcModeCheck(presentedOidc, oidcResult, unverifiedReason) ==
    IF presentedOidc = None THEN Rejected("oidc_token_missing")
    ELSE IF oidcResult # None THEN Rejected(oidcResult[1].reason)
    ELSE Rejected(unverifiedReason)

\* a connection attempt arrives
AuthBegin(auth, connectAuth, req, whois, verifier) ==
    /\ authPc = "idle"
    /\ authPc' = "tailscale"
    /\ authIn' = Some([auth |-> auth, connectAuth |-> connectAuth, req |-> req,
                       tailscaleWhois |-> whois, oidcVerifier |-> verifier])
    /\ authOidc' = None
    /\ authTrace' = <<>>
    /\ authResult' = None
    /\ UNCHANGED brokerVars
    /\ UNCHANGED oidcVars
    /\ UNCHANGED uiVars
    /\ UNCHANGED ssaVars
    /\ UNCHANGED toolVars

\* mutant: the identity-proxy shortcut is tried for every request
AuthTailscaleStep_AnyRequest ==
    /\ authPc = "tailscale"
    /\ LET in == authIn[1] IN
       IF in.auth.allowTailscale
       THEN /\ authTrace' = Append(authTrace, "tailscale")
            /\ IF in.tailscaleWhois # None
               THEN /\ authResult' = Some(Accepted("tailscale", Some(in.tailscaleWhois[1].login)))
                    /\ authPc' = "done"
               ELSE /\ authPc' = "oidc"
                    /\ UNCHANGED authResult
       ELSE /\ authPc' = "oidc"
            /\ UNCHANGED <<authTrace, authResult>>
    /\ UNCHANGED <<authIn, authOidc>>
    /\ UNCHANGED brokerVars
    /\ UNCHANGED oidcVars
    /\ UNCHANGED uiVars
    /\ UNCHANGED ssaVars
    /\ UNCHANGED toolVars

\* step 1, the identity-proxy shortcut
AuthTailscaleStep ==
    /\ authPc = "tailscale"
    /\ LET in == authIn[1]
           overlay == IsOverlayProxyRequest(in.req)
       IN
       IF overlay = "TypeError"
       THEN /\ authResult' = Some(Threw)
            /\ authPc' = "done"
            /\ UNCHANGED authTrace
       ELSE IF in.auth.allowTailscale /\ overlay = "yes"
       THEN /\ authTrace' = Append(authTrace, "tailscale")
            /\ IF in.tailscaleWhois # None
               THEN /\ authResult' = Some(Accepted("tailscale", Some(in.tailscaleWhois[1].login)))
                    /\ authPc' = "done"
               ELSE /\ authPc' = "oidc"
                    /\ UNCHANGED authResult
       ELSE /\ authPc' = "oidc"
            /\ UNCHANGED <<authTrace, authResult>>
    /\ UNCHANGED <<authIn, authOidc>>
    /\ UNCHANGED brokerVars
    /\ UNCHANGED oidcVars
    /\ UNCHANGED uiVars
    /\ UNCHANGED ssaVars
    /\ UNCHANGED toolVars

\* mutant: a failed verification rejects the attempt outright
AuthOidcStep_RejectsOutright ==
    /\ authPc = "oidc"
    /\ LET in == authIn[1]
           token == PresentedOidcToken(in.connectAuth)
       IN
       IF in.oidcVerifier # None /\ token # None
       THEN /\ authTrace' = Append(authTrace, "oidc")
            /\ IF in.oidcVerifier[1].throws
               THEN /\ authResult' = Some(Threw)
                    /\ authPc' = "done"
                    /\ UNCHANGED authOidc
               ELSE LET res == createMockOidcVerifier(in.oidcVerifier[1].opts) IN
                    /\ authResult' = Some(IF res.ok THEN Accepted("oidc", Some(res.user))
                                                     ELSE Rejected(res.reason))
                    /\ authPc' = "done"
                    /\ UNCHANGED authOidc
       ELSE /\ authPc' = "mode"
            /\ UNCHANGED <<authOidc, authTrace, authResult>>
    /\ UNCHANGED authIn
    /\ UNCHANGED brokerVars
    /\ UNCHANGED oidcVars
    /\ UNCHANGED uiVars
    /\ UNCHANGED ssaVars
    /\ UNCHANGED toolVars

\* mutant: the OIDC check is made in mode = oidc only
AuthOidcStep_OidcModeOnly ==
    /\ authPc = "oidc"
    /\ LET in == authIn[1]
           token == PresentedOidcToken(in.connectAuth)
       IN
       IF in.oidcVerifier # None /\ token # None /\ in.auth.mode = "oidc"
       THEN /\ authTrace' = Append(authTrace, "oidc")
            /\ IF in.oidcVerifier[1].throws
               THEN /\ authResult' = Some(Threw)
                    /\ authPc' = "done"
                    /\ UNCHANGED authOidc
               ELSE LET res == createMockOidcVerifier(in.oidcVerifier[1].opts) IN
                    IF res.ok
                    THEN /\ authResult' = Some(Accepted("oidc", Some(res.user)))
                         /\ authPc' = "done"
                         /\ UNCHANGED authOidc
                    ELSE /\ authOidc' = Some(res)
                         /\ authPc' = "mode"
                         /\ UNCHANGED authResult
       ELSE /\ authPc' = "mode"
            /\ UNCHANGED <<authOidc, authTrace, authResult>>
    /\ UNCHANGED authIn
    /\ UNCHANGED brokerVars
    /\ UNCHANGED oidcVars
    /\ UNCHANGED uiVars
    /\ UNCHANGED ssaVars
    /\ UNCHANGED toolVars

\* step 2, the OIDC check: made whenever a verifier is supplied and an
\* oidcToken is presented; a failure is kept and the attempt goes on
AuthOidcStep ==
    /\ authPc = "oidc"
    /\ LET in == authIn[1]
           token == PresentedOidcToken(in.connectAuth)
       IN
       IF in.oidcVerifier # None /\ token # None
       THEN /\ authTrace' = Append(authTrace, "oidc")
            /\ IF in.oidcVerifier[1].throws
               THEN /\ authResult' = Some(Threw)
                    /\ authPc' = "done"
                    /\ UNCHANGED authOidc
               ELSE LET res == createMockOidcVerifier(in.oidcVerifier[1].opts) IN
                    IF res.ok
                    THEN /\ authResult' = Some(Accepted("oidc", Some(res.user)))
                         /\ authPc' = "done"
                         /\ UNCHANGED authOidc
                    ELSE /\ authOidc' = Some(res)
                         /\ authPc' = "mode"
                         /\ UNCHANGED authResult
       ELSE /\ authPc' = "mode"
            /\ UNCHANGED <<authOidc, authTrace, authResult>>
    /\ UNCHANGED authIn
    /\ UNCHANGED brokerVars
    /\ UNCHANGED oidcVars
    /\ UNCHANGED uiVars
    /\ UNCHANGED ssaVars
    /\ UNCHANGED toolVars

\* mutant: when the OIDC check failed, its reason replaces the reason of the
\* mode-specific check
AuthModeResult_KeepsOidcReason(auth, connectAuth, oidcResult, unverifiedReason) ==
    LET r == IF auth.mode = "token"
             THEN StaticCheck("token", auth.token, PresentedToken(connectAuth))
             ELSE IF auth.mode = "password"
             THEN StaticCheck("password", auth.password, PresentedPassword(connectAuth))
             ELSE OidcModeCheck(PresentedOidcToken(connectAuth), oidcResult, unverifiedReason)
    IN IF r.kind = "rejected" /\ oidcResult # None THEN Rejected(oidcResult[1].reason) ELSE r

\* the result of the mode-specific check
AuthModeResult(auth, connectAuth, oidcResult, unverifiedReason) ==
    IF auth.mode = "token"
    THEN StaticCheck("token", auth.token, PresentedToken(connectAuth))
    ELSE IF auth.mode = "password"
    THEN StaticCheck("password", auth.password, PresentedPassword(connectAuth))
    ELSE OidcModeCheck(PresentedOidcToken(connectAuth), oidcResult, unverifiedReason)

\* step 3, the mode-specific check
AuthModeStep ==
    /\ authPc = "mode"
    /\ \E unverifiedReason \in UnverifiedOidcReasons :
           authResult' = Some(AuthModeResult(authIn[1].auth, authIn[1].connectAuth,
                                             authOidc, unverifiedReason))
    /\ authTrace' = Append(authTrace, "mode")
    /\ authPc' = "done"
    /\ UNCHANGED <<authIn, authOidc>>
    /\ UNCHANGED brokerVars
    /\ UNCHANGED oidcVars
    /\ UNCHANGED uiVars
    /\ UNCHANGED ssaVars
    /\ UNCHANGED toolVars

\* the transport layer takes the result; the next attempt may arrive
AuthReturn ==
    /\ authPc = "done"
    /\ authPc' = "idle"
    /\ authIn' = None
    /\ authOidc' = None
    /\ authTrace' = <<>>
    /\ authResult' = None
    /\ UNCHANGED brokerVars
    /\ UNCHANGED oidcVars
    /\ UNCHANGED uiVars
    /\ UNCHANGED ssaVars
    /\ UNCHANGED toolVars

InitAuth ==
    /\ now = 0
    /\ AZURE_AD_CONFIG = [clientId |-> "app", clientSecret |-> "s3", tenantId |-> "tid"]
    /\ tokenCache = <<>>
    /\ issued = 0
    /\ fetched = <<>>
    /\ call = [p \in Callers |-> IdleCall]
    /\ event = None
    /\ AuthIdle
    /\ OidcIdle
    /\ UiIdle
    /\ SsaIdle
    /\ ToolIdle

NextAuth ==
    \/ /\ authPc = "idle"
       /\ \E auth \in AuthConfigs, connectAuth \in ConnectAuths, req \in Requests,
             whois \in WhoisResults, verifier \in Verifiers :
              AuthBegin(auth, connectAuth, req, whois, verifier)
    \/ AuthTailscaleStep
    \/ AuthOidcStep
    \/ AuthModeStep
    \/ AuthReturn

SpecAuth == InitAuth /\ [][NextAuth]_vars

(***************************************************************************)
(* OidcVerifier: createOidcVerifier(config) and verifier.verify(token).    *)
(* Texts the code inspects character by character (the issuer, the user    *)
(* claim, the email) are sequences of one-character strings.               *)
(***************************************************************************)
\* String.prototype.trim()
RECURSIVE TrimStart(_)
TrimStart(s) == IF s # <<>> /\ Head(s) = " " THEN TrimStart(Tail(s)) ELSE s

RECURSIVE TrimEnd(_)
TrimEnd(s) == IF s # <<>> /\ s[Len(s)] = " " THEN TrimEnd(SubSeq(s, 1, Len(s) - 1)) ELSE s

Trim(s) == TrimEnd(TrimStart(s))

\* issuer.replace(/\/+$/, "")
RECURSIVE StripTrailingSlashes(_)
StripTrailingSlashes(s) ==
    IF s # <<>> /\ s[Len(s)] = "/" THEN StripTrailingSlashes(SubSeq(s, 1, Len(s) - 1)) ELSE s

\* String.prototype.endsWith(suffix)
EndsWith(s, suffix) ==
    /\ Len(suffix) <= Len(s)
    /\ SubSeq(s, Len(s) - Len(suffix) + 1, Len(s)) = suffix

\* String.prototype.toLowerCase(), on the letters the inputs use
ToLowerCase(s) ==
    [i \in 1..Len(s) |-> CASE s[i] = "A" -> "a"
                           [] s[i] = "X" -> "x"
                           [] OTHER -> s[i]]

\* a claim of the payload: absent (None), a string, or a value of another type
StringClaim(text) == Some([type |-> "string", text |-> text])
NumberClaim == Some([type |-> "number", text |-> <<>>])

\* the issuer of the identity provider, and the audience of this service
TEST_ISSUER == <<"i", "d", "p">>
TEST_AUDIENCE == "test-client-id"

\* the discovery document's jwks_uri and the configured one; the URL the
\* discovery request is sent to is the issuer without its trailing slashes
\* followed by the well-known path
JWKS_URI == "idp/.well-known/jwks.json"
WellKnownUrl(issuer) == StripTrailingSlashes(issuer) \o <<"/.well-known/openid-configuration">>

\* the OidcVerifierConfig values; an allowlist is absent, an empty list, or a
\* list with one entry (the entry of allowedEmails has an upper-case letter)
VerifierConfigs ==
    [issuer : {TEST_ISSUER, TEST_ISSUER \o <<"/">>},
     audience : {TEST_AUDIENCE},
     jwksUri : {None, Some(JWKS_URI)},
     userClaim : {None, Some("email")},
     allowedDomains : {None, Some(<<>>), Some(<<<<"x">>>>)},
     allowedEmails : {None, Some(<<>>), Some(<<<<"A", "@", "x">>>>)}]

\* the keys of the identity provider: key id and key pair
Key1 == [kid |-> "test-key-1", pair |-> "pair1"]
Key2 == [kid |-> "test-key-2", pair |-> "pair2"]

\* the key sets the key-set location may serve: before and after a rotation
KeySets == {{Key1}, {Key1, Key2}}

\* the key id a token names and the key pair that signed it: the two keys of
\* the provider, a foreign key under its own key id, a foreign key under the
\* provider's key id
Signatures ==
    { [kid |-> "test-key-1", signedWith |-> "pair1"],
      [kid |-> "test-key-2", signedWith |-> "pair2"],
      [kid |-> "unknown-key", signedWith |-> "other"],
      [kid |-> "test-key-1", signedWith |-> "other"] }

\* exp and nbf of a token, in seconds: with the instants 0 s, 1 s and 3300 s
\* a token with exp = 0 expires at the first instant and expired one second
\* ago at the second, one with exp = 2 is valid at both
ExpValues == {0, 2}
NbfValues == {None, Some(1)}

\* the payload of a token the provider issued to a user of this service
ValidPayload ==
    [iss |-> TEST_ISSUER, aud |-> TEST_AUDIENCE, exp |-> 2, nbf |-> None,
     sub |-> StringClaim(<<"u", "1">>), email |-> StringClaim(<<"a", "@", "x">>)]

\* the values each claim of a payload may take
PayloadValues ==
    [iss : {TEST_ISSUER, TEST_ISSUER \o <<"/">>, <<"e", "v", "i", "l">>},
     aud : {TEST_AUDIENCE, "wrong-audience"},
     exp : ExpValues,
     nbf : NbfValues,
     sub : {None, StringClaim(<<"u", "1">>), StringClaim(<<" ", "u", "1", " ">>),
            StringClaim(<<" ">>)},
     email : {None, StringClaim(<<"a", "@", "x">>), StringClaim(<<"A", "@", "X">>),
              StringClaim(<<"a", "@", "y", "x">>), StringClaim(<<"a", "@", "y", ".", "x">>),
              NumberClaim}]

\* the payloads of the tokens presented: those that differ from ValidPayload
\* in at most two claims
Payloads ==
    { pl \in PayloadValues :
        \E f1, f2 \in DOMAIN ValidPayload :
            \A f \in DOMAIN ValidPayload \ {f1, f2} : pl[f] = ValidPayload[f] }

\* the tokens presented to verify: signed JWTs, and text that is no JWT
Tokens ==
    { [form |-> "jws", kid |-> s.kid, signedWith |-> s.signedWith, payload |-> pl] :
          s \in Signatures, pl \in Payloads }
    \cup { [form |-> "garbage", kid |-> "", signedWith |-> "", payload |-> None] }

\* the OidcVerifyResult values
VerifyOk(user, claims) == [ok |-> TRUE, user |-> user, claims |-> Some(claims), reason |-> ""]
VerifyFailed(reason) == [ok |-> FALSE, user |-> <<>>, claims |-> None, reason |-> reason]

\* mutant: the claim is returned as it is in the payload
extractUserClaim_Untrimmed(payload, claim) ==
    LET val == payload[claim] IN
    IF val # None /\ val[1].type = "string" /\ Trim(val[1].text) # <<>>
    THEN Some(val[1].text)
    ELSE None

\* extractUserClaim(payload, claim): the trimmed claim, if it is a string that
\* is not empty once trimmed
extractUserClaim(payload, claim) ==
    LET val == payload[claim] IN
    IF val # None /\ val[1].type = "string" /\ Trim(val[1].text) # <<>>
    THEN Some(Trim(val[1].text))
    ELSE None

\* typeof payload.email === "string" ? payload.email : undefined
EmailOf(payload) ==
    IF payload.email # None /\ payload.email[1].type = "string"
    THEN Some(payload.email[1].text)
    ELSE None

\* mutant: a token without an email passes the domain restriction
checkDomainRestriction_SkipsMissing(email, allowedDomains) ==
    IF email = None \/ email = Some(<<>>) THEN TRUE
    ELSE \E i \in 1..Len(allowedDomains) : EndsWith(email[1], <<"@">> \o allowedDomains[i])

\* mutant: the email only has to end with the text of a listed domain
checkDomainRestriction_PlainSuffix(email, allowedDomains) ==
    IF email = None \/ email = Some(<<>>) THEN FALSE
    ELSE \E i \in 1..Len(allowedDomains) : EndsWith(email[1], allowedDomains[i])

\* checkDomainRestriction(email, allowedDomains)
checkDomainRestriction(email, allowedDomains) ==
    IF email = None \/ email = Some(<<>>) THEN FALSE
    ELSE \E i \in 1..Len(allowedDomains) : EndsWith(email[1], <<"@">> \o allowedDomains[i])

\* checkEmailAllowlist(email, allowedEmails)
checkEmailAllowlist(email, allowedEmails) ==
    IF email = None \/ email = Some(<<>>) THEN FALSE
    ELSE \E i \in 1..Len(allowedEmails) :
             ToLowerCase(allowedEmails[i]) = ToLowerCase(email[1])

\* the result of jwtVerify: the verified payload, or the code of the error
JwtVerified(payload) == [ok |-> TRUE, code |-> "", payload |-> Some(payload)]
JwtError(code) == [ok |-> FALSE, code |-> code, payload |-> None]

\* the keys of the key set a token's protected header selects
MatchingKeys(token, keys) == {k \in keys : k.kid = token.kid}

\* mutant: the signature is not checked against the selected key
JwtVerifyWithKey_Unsigned(token, key, issuer, audience) ==
    LET payload == token.payload
        seconds == now \div 1000
    IN IF payload.iss # issuer \/ payload.aud # audience
            THEN JwtError("ERR_JWT_CLAIM_VALIDATION_FAILED")
       ELSE IF payload.nbf # None /\ payload.nbf[1] > seconds
            THEN JwtError("ERR_JWT_CLAIM_VALIDATION_FAILED")
       ELSE IF payload.exp <= seconds
            THEN JwtError("ERR_JWT_EXPIRED")
       ELSE JwtVerified(payload)

\* jwtVerify once the key is selected: the signature, then iss and aud, then
\* nbf, then exp, against the clock in whole seconds
JwtVerifyWithKey(token, key, issuer, audience) ==
    LET payload == token.payload
        seconds == now \div 1000
    IN IF key.pair # token.signedWith
            THEN JwtError("ERR_JWS_SIGNATURE_VERIFICATION_FAILED")
       ELSE IF payload.iss # issuer \/ payload.aud # audience
            THEN JwtError("ERR_JWT_CLAIM_VALIDATION_FAILED")
       ELSE IF payload.nbf # None /\ payload.nbf[1] > seconds
            THEN JwtError("ERR_JWT_CLAIM_VALIDATION_FAILED")
       ELSE IF payload.exp <= seconds
            THEN JwtError("ERR_JWT_EXPIRED")
       ELSE JwtVerified(payload)

\* jwtVerify(token, JWKS, {issuer, audience}) with the key set keys
jwtVerify(token, keys, issuer, audience) ==
    IF token.form # "jws" THEN JwtError("ERR_JWS_INVALID")
    ELSE IF MatchingKeys(token, keys) = {} THEN JwtError("ERR_JWKS_NO_MATCHING_KEY")
    ELSE IF Cardinality(MatchingKeys(token, keys)) > 1
         THEN JwtError("ERR_JWKS_MULTIPLE_MATCHING_KEYS")
    ELSE JwtVerifyWithKey(token, CHOOSE k \in MatchingKeys(token, keys) : TRUE,
                          issuer, audience)

\* mutant: only the expiry is told apart
ReasonOfCode_Generic(code) ==
    IF code = "ERR_JWT_EXPIRED" THEN "oidc_token_expired" ELSE "oidc_token_invalid"

\* the catch block of verify: the reason for the code of the error
ReasonOfCode(code) ==
    IF code = "ERR_JWT_EXPIRED" THEN "oidc_token_expired"
    ELSE IF code = "ERR_JWS_SIGNATURE_VERIFICATION_FAILED" THEN "oidc_signature_invalid"
    ELSE "oidc_token_invalid"

\* config.allowedDomains?.length, config.allowedEmails?.length
HasEntries(list) == list # None /\ Len(list[1]) > 0

\* mutant: the allowlists are checked before the user claim
VerifyPayload_AllowlistsFirst(config, payload) ==
    LET userClaim == IF config.userClaim = None THEN "sub" ELSE config.userClaim[1]
        user == extractUserClaim(payload, userClaim)
        email == EmailOf(payload)
    IN IF /\ HasEntries(config.allowedDomains)
          /\ ~checkDomainRestriction(email, config.allowedDomains[1])
            THEN VerifyFailed("oidc_domain_not_allowed")
       ELSE IF /\ HasEntries(config.allowedEmails)
               /\ ~checkEmailAllowlist(email, config.allowedEmails[1])
            THEN VerifyFailed("oidc_email_not_allowed")
       ELSE IF user = None THEN VerifyFailed("oidc_user_claim_missing")
       ELSE VerifyOk(user[1], payload)

\* the try block of verify after jwtVerify returned the payload
VerifyPayload(config, payload) ==
    LET userClaim == IF config.userClaim = None THEN "sub" ELSE config.userClaim[1]
        user == extractUserClaim(payload, userClaim)
        email == EmailOf(payload)
    IN IF user = None THEN VerifyFailed("oidc_user_claim_missing")
       ELSE IF /\ HasEntries(config.allowedDomains)
               /\ ~checkDomainRestriction(email, config.allowedDomains[1])
            THEN VerifyFailed("oidc_domain_not_allowed")
       ELSE IF /\ HasEntries(config.allowedEmails)
               /\ ~checkEmailAllowlist(email, config.allowedEmails[1])
            THEN VerifyFailed("oidc_email_not_allowed")
       ELSE VerifyOk(user[1], payload)

\* mutant: jwtVerify is given the issuer as it is configured
VerifyWithKeys_RawIssuer(config, token, keys) ==
    LET verified == jwtVerify(token, keys, config.issuer, config.audience)
    IN IF verified.ok THEN VerifyPayload(config, verified.payload[1])
       ELSE VerifyFailed(ReasonOfCode(verified.code))

\* verify(token) of the verifier created from config, with the key set keys
VerifyWithKeys(config, token, keys) ==
    LET normalizedIssuer == StripTrailingSlashes(config.issuer)
        verified == jwtVerify(token, keys, normalizedIssuer, config.audience)
    IN IF verified.ok THEN VerifyPayload(config, verified.payload[1])
       ELSE VerifyFailed(ReasonOfCode(verified.code))

\* what the discovery endpoint may answer: the document with and without
\* jwks_uri, a non-success status, a fetch that rejects
DiscoveryResponses ==
    { [kind |-> "ok", status |-> 200, jwks_uri |-> Some(JWKS_URI)],
      [kind |-> "ok", status |-> 200, jwks_uri |-> None],
      [kind |-> "http", status |-> 404, jwks_uri |-> None],
      [kind |-> "throw", status |-> 0, jwks_uri |-> None] }

\* what the key-set location may answer: a key set, or a failure (a
\* non-success status, or no answer within the timeout of the key-set fetch)
KeySetResponses ==
    { [kind |-> "ok", keys |-> ks] : ks \in KeySets } \cup { [kind |-> "failed", keys |-> {}] }

\* createOidcVerifier(config) up to its first await: with jwksUri configured
\* the verifier is returned, else discoverJwksUri sends its request
CreateOidcVerifierStart(config) ==
    /\ oidcVerifier.pc = "none"
    /\ oidcVerifier' =
          IF config.jwksUri # None
          THEN [oidcVerifier EXCEPT !.pc = "ready", !.config = Some(config),
                                    !.jwksUri = config.jwksUri]
          ELSE [oidcVerifier EXCEPT !.pc = "discovering", !.config = Some(config),
                                    !.requested = Some(WellKnownUrl(config.issuer))]
    /\ UNCHANGED verifyCall
    /\ UNCHANGED brokerVars
    /\ UNCHANGED authVars
    /\ UNCHANGED uiVars
    /\ UNCHANGED ssaVars
    /\ UNCHANGED toolVars

\* mutant: the status of the discovery response is not looked at
DiscoveryResponds_IgnoresStatus(resp) ==
    /\ oidcVerifier.pc = "discovering"
    /\ LET wellKnownUrl == WellKnownUrl(oidcVerifier.config[1].issuer)
           settled == [oidcVerifier EXCEPT !.response = Some(resp)]
       IN
       oidcVerifier' =
          IF resp.kind = "throw"
          THEN [settled EXCEPT !.pc = "failed", !.error = <<"fetch failed">>]
          ELSE IF resp.jwks_uri = None /\ resp.kind # "http"
          THEN [settled EXCEPT !.pc = "failed",
                   !.error = <<"OIDC discovery: missing jwks_uri in ">> \o wellKnownUrl]
          ELSE [settled EXCEPT !.pc = "ready", !.jwksUri = Some(JWKS_URI)]
    /\ UNCHANGED verifyCall
    /\ UNCHANGED brokerVars
    /\ UNCHANGED authVars
    /\ UNCHANGED uiVars
    /\ UNCHANGED ssaVars
    /\ UNCHANGED toolVars

\* the discovery request settles with resp; the rest of discoverJwksUri and
\* of createOidcVerifier runs: the verifier is returned, or an error thrown
DiscoveryResponds(resp) ==
    /\ oidcVerifier.pc = "discovering"
    /\ LET wellKnownUrl == WellKnownUrl(oidcVerifier.config[1].issuer)
           settled == [oidcVerifier EXCEPT !.response = Some(resp)]
       IN
       oidcVerifier' =
          IF resp.kind = "throw"
          THEN [settled EXCEPT !.pc = "failed", !.error = <<"fetch failed">>]
          ELSE IF resp.kind = "http"
          THEN [settled EXCEPT !.pc = "failed",
                   !.error = <<"OIDC discovery failed: HTTP ", ToString(resp.status), " from ">>
                             \o wellKnownUrl]
          ELSE IF resp.jwks_uri = None
          THEN [settled EXCEPT !.pc = "failed",
                   !.error = <<"OIDC discovery: missing jwks_uri in ">> \o wellKnownUrl]
          ELSE [settled EXCEPT !.pc = "ready", !.jwksUri = resp.jwks_uri]
    /\ UNCHANGED verifyCall
    /\ UNCHANGED brokerVars
    /\ UNCHANGED authVars
    /\ UNCHANGED uiVars
    /\ UNCHANGED ssaVars
    /\ UNCHANGED toolVars

\* verify(token) up to the key-set fetch of jwtVerify.  Text that is no JWT is
\* rejected before any key is looked up.  The key set is fetched when none is
\* held, and reload stands for the decision of the key-set cache to fetch it
\* again (the set held is old, or has no key for the token); else the call
\* completes with the set held.
VerifyStart(token, reload) ==
    /\ oidcVerifier.pc = "ready"
    /\ verifyCall.pc = "idle"
    /\ LET config == oidcVerifier.config[1] IN
       IF token.form # "jws"
       THEN /\ verifyCall' = [pc |-> "done", token |-> Some(token), keys |-> None, at |-> now,
                              result |-> Some(VerifyWithKeys(config, token, {}))]
            /\ UNCHANGED oidcVerifier
       ELSE IF oidcVerifier.JWKS = None \/ reload
       THEN /\ verifyCall' = [pc |-> "fetchingKeys", token |-> Some(token), keys |-> None,
                              at |-> 0, result |-> None]
            /\ UNCHANGED oidcVerifier
       ELSE /\ verifyCall' = [pc |-> "done", token |-> Some(token),
                              keys |-> oidcVerifier.JWKS, at |-> now,
                              result |-> Some(VerifyWithKeys(config, token,
                                                             oidcVerifier.JWKS[1]))]
            /\ UNCHANGED oidcVerifier
    /\ UNCHANGED brokerVars
    /\ UNCHANGED authVars
    /\ UNCHANGED uiVars
    /\ UNCHANGED ssaVars
    /\ UNCHANGED toolVars

\* the key-set fetch settles with resp: a failure is an error of jwtVerify,
\* a key set is kept and the rest of verify runs with it
KeySetResponds(resp) ==
    /\ verifyCall.pc = "fetchingKeys"
    /\ LET config == oidcVerifier.config[1]
           token == verifyCall.token[1]
       IN IF resp.kind = "ok"
          THEN /\ oidcVerifier' = [oidcVerifier EXCEPT !.JWKS = Some(resp.keys)]
               /\ verifyCall' = [verifyCall EXCEPT !.pc = "done", !.keys = Some(resp.keys),
                                    !.at = now,
                                    !.result = Some(VerifyWithKeys(config, token, resp.keys))]
          ELSE /\ UNCHANGED oidcVerifier
               /\ verifyCall' = [verifyCall EXCEPT !.pc = "done", !.at = now,
                                    !.result = Some(VerifyFailed(ReasonOfCode("ERR_JWKS_TIMEOUT")))]
    /\ UNCHANGED brokerVars
    /\ UNCHANGED authVars
    /\ UNCHANGED uiVars
    /\ UNCHANGED ssaVars
    /\ UNCHANGED toolVars

\* the caller of verify takes the result
VerifyReturn ==
    /\ verifyCall.pc = "done"
    /\ verifyCall' = [pc |-> "idle", token |-> None, keys |-> None, at |-> 0, result |-> None]
    /\ UNCHANGED oidcVerifier
    /\ UNCHANGED brokerVars
    /\ UNCHANGED authVars
    /\ UNCHANGED uiVars
    /\ UNCHANGED ssaVars
    /\ UNCHANGED toolVars

InitOidc ==
    /\ now = 0
    /\ AZURE_AD_CONFIG = [clientId |-> "app", clientSecret |-> "s3", tenantId |-> "tid"]
    /\ tokenCache = <<>>
    /\ issued = 0
    /\ fetched = <<>>
    /\ call = [p \in Callers |-> IdleCall]
    /\ event = None
    /\ AuthIdle
    /\ OidcIdle
    /\ UiIdle
    /\ SsaIdle
    /\ ToolIdle

NextOidc ==
    \/ /\ oidcVerifier.pc = "none"
       /\ \E config \in VerifierConfigs : CreateOidcVerifierStart(config)
    \/ \E resp \in DiscoveryResponses : DiscoveryResponds(resp)
    \/ /\ oidcVerifier.pc = "ready"
       /\ verifyCall.pc = "idle"
       /\ \E token \in Tokens, reload \in BOOLEAN : VerifyStart(token, reload)
    \/ \E resp \in KeySetResponses : KeySetResponds(resp)
    \/ VerifyReturn
    \/ Tick

SpecOidc == InitOidc /\ [][NextOidc]_vars

(***************************************************************************)
(* The outbound requests of the verifier and of the broker, with their     *)
(* timeouts.  A request that carries a timeout settles: with an answer, or *)
(* with the timeout error once the delay has passed.                       *)
(***************************************************************************)
\* the requests in flight and the timeout (ms) each was sent with: the
\* discovery request is sent without one, the key-set fetch has the default
\* of createRemoteJWKSet, the two POSTs have AbortSignal.timeout(15_000)
PendingRequests ==
    (IF oidcVerifier.pc = "discovering"
     THEN {[request |-> "discovery", timeout |-> None]} ELSE {})
    \cup (IF verifyCall.pc = "fetchingKeys"
          THEN {[request |-> "jwks", timeout |-> Some(5000)]} ELSE {})
    \cup { [request |-> "refresh_token", timeout |-> Some(15000)] :
              p \in {q \in Callers : call[q].pc = "silentFetch"} }
    \cup { [request |-> "jwt-bearer", timeout |-> Some(15000)] :
              p \in {q \in Callers : call[q].pc = "oboFetch"} }

\* the fetch of a POST rejected by its AbortSignal
TimedOut ==
    [kind |-> "throw", status |-> 0, statusText |-> "", body |-> "timeout",
     access_token |-> None, expires_in |-> None]

\* the key-set fetch gave no key set within its timeout
KeySetTimedOut == [kind |-> "failed", keys |-> {}]

\* the inputs of the runs that follow requests to their end: a verifier with
\* and without jwksUri, a valid token, one user and one scope
NetConfigs ==
    { [issuer |-> TEST_ISSUER, audience |-> TEST_AUDIENCE, jwksUri |-> j,
       userClaim |-> None, allowedDomains |-> None, allowedEmails |-> None] :
          j \in {None, Some(JWKS_URI)} }
NetToken == [form |-> "jws", kid |-> "test-key-1", signedWith |-> "pair1", payload |-> ValidPayload]
NetScopes == [isArray |-> FALSE, items |-> <<"a b">>]

NextNet ==
    \/ \E config \in NetConfigs : CreateOidcVerifierStart(config)
    \/ \E resp \in DiscoveryResponses : DiscoveryResponds(resp)
    \/ \E reload \in BOOLEAN : VerifyStart(NetToken, reload)
    \/ \E resp \in KeySetResponses : KeySetResponds(resp)
    \/ VerifyReturn
    \/ \E p \in BrokerCallers : AcquireTokenSilentStart(p, RefreshTokenOf[p], NetScopes)
    \/ \E p \in BrokerCallers : ExchangeTokenOBOStart(p, AssertionOf[p], NetScopes)
    \/ \E p \in BrokerCallers : AcquireDownstreamTokenStart(p, RefreshTokenOf[p], NetScopes)
    \/ \E p \in BrokerCallers : \E resp \in TokenResponses(NextToken) :
           /\ resp.access_token \notin {None, Some("")} => issued < MaxIssued
           /\ TokenEndpointResponds(p, resp)
    \/ \E p \in BrokerCallers : AcquireDownstreamTokenResume(p)

\* what the timeouts and the scheduling of continuations guarantee: a POST in
\* flight is rejected by its AbortSignal if nothing else settles it, a
\* key-set fetch by its timeout, and acquireDownstreamToken resumes once
\* acquireTokenSilent has returned.  Nothing settles a discovery request the
\* endpoint does not answer.
FairNet ==
    /\ WF_vars(\E p \in BrokerCallers : TokenEndpointResponds(p, TimedOut))
    /\ WF_vars(\E p \in BrokerCallers : AcquireDownstreamTokenResume(p))
    /\ WF_vars(KeySetResponds(KeySetTimedOut))

SpecNet == InitBroker /\ [][NextNet]_vars /\ FairNet

(***************************************************************************)
(* Web UI (ui/oidc.ts and the page's handleConnected): the stored tokens,  *)
(* the PKCE state, the refresh mutex and the SSO gate of the page.  A step *)
(* runs a handler up to its next await on the network, with the promise    *)
(* callbacks that follow at once.                                          *)
(***************************************************************************)
\* the startOidcLogin calls of a run: each draws a new state value
MaxLogins == 2

\* the callers of the token functions besides the page: the refresh timer
\* and the gateway client
UiCallers == {"u1", "u2"}

\* the instants the clock takes (ms): a 3600 s token stored at 0 is valid up
\* to and including the second instant, and no longer at the third
UiInstants == {0, 3540000, 3540001}

\* Date.now() > tokens.expires_at - 60_000
OIDC_EXPIRY_BUFFER_MS == 60000

\* data.expires_in ?? 3600
OIDC_DEFAULT_EXPIRES_IN == 3600

\* the state value of the n-th login (generateState draws them at random)
StateOf(n) == "s" \o ToString(n)

\* window.location of a page load: the app, /callback without the code and
\* state parameters (query: both are there), or /callback with code and state
\* (state empty, forged, or one a login of this tab drew)
Locations ==
    { [path |-> "/", query |-> FALSE, code |-> "", state |-> ""],
      [path |-> "/callback", query |-> FALSE, code |-> "", state |-> ""] }
    \cup { [path |-> "/callback", query |-> TRUE, code |-> "c1", state |-> st] :
               st \in {"", "forged"} \cup { StateOf(n) : n \in 1..MaxLogins } }

\* mutant: every page at /callback is taken for an OIDC callback
isOidcCallback_ByPath(loc) == loc.path = "/callback"

\* pathname === "/callback" && params.has("code") && params.has("state")
isOidcCallback(loc) == loc.path = "/callback" /\ loc.query

\* what the token endpoint may answer to a request of the given grant
UiTokenResponses(grant) ==
    LET id == IF grant = "authorization_code" THEN "id1" ELSE "id2"
        rt == IF grant = "authorization_code" THEN "rt1" ELSE "rt2"
    IN { [kind |-> "ok", status |-> 200, id_token |-> Some(id), access_token |-> Some("at"),
          refresh_token |-> r, expires_in |-> e] :
             r \in {None, Some(rt)}, e \in {None, Some(30)} }
       \cup { [kind |-> "ok", status |-> 200, id_token |-> None, access_token |-> Some("at"),
               refresh_token |-> Some(rt), expires_in |-> None],
              [kind |-> "ok", status |-> 200, id_token |-> Some(id), access_token |-> None,
               refresh_token |-> Some(rt), expires_in |-> None],
              [kind |-> "http", status |-> 400, id_token |-> None, access_token |-> None,
               refresh_token |-> None, expires_in |-> None],
              [kind |-> "throw", status |-> 0, id_token |-> None, access_token |-> None,
               refresh_token |-> None, expires_in |-> None] }

\* loadOidcTokens(): only storeOidcTokens writes the entry, so what is stored
\* parses to OidcTokens
loadOidcTokens(storage) == storage.tokens

\* getValidOidcToken()
getValidOidcToken(storage, t) ==
    LET tokens == loadOidcTokens(storage) IN
    IF tokens = None THEN None
    ELSE IF t > tokens[1].expires_at - OIDC_EXPIRY_BUFFER_MS THEN None
    ELSE Some(tokens[1].id_token)

\* mutant: the refresh token of the response is stored even when it is absent
TokensOfResponse_DropsRefreshToken(resp, fallback, t) ==
    IF resp.kind # "ok" \/ resp.id_token = None \/ resp.access_token = None
    THEN None
    ELSE Some([id_token |-> resp.id_token[1],
               access_token |-> resp.access_token[1],
               refresh_token |-> resp.refresh_token,
               expires_at |-> t + (IF resp.expires_in = None THEN OIDC_DEFAULT_EXPIRES_IN
                                   ELSE resp.expires_in[1]) * 1000])

\* the OidcTokens built from a token response, or null: the response is no
\* success or lacks id_token or access_token.  fallback is the refresh token
\* kept when the response has none (absent in the callback).
TokensOfResponse(resp, fallback, t) ==
    IF resp.kind # "ok" \/ resp.id_token = None \/ resp.access_token = None
    THEN None
    ELSE Some([id_token |-> resp.id_token[1],
               access_token |-> resp.access_token[1],
               refresh_token |-> IF resp.refresh_token # None
                                 THEN resp.refresh_token ELSE fallback,
               expires_at |-> t + (IF resp.expires_in = None THEN OIDC_DEFAULT_EXPIRES_IN
                                   ELSE resp.expires_in[1]) * 1000])

\* refresh?.id_token ?? null
IdTokenOf(tokens) == IF tokens = None THEN None ELSE Some(tokens[1].id_token)

\* a caller that awaits nothing
UiIdleCall == [op |-> "idle", awaits |-> ""]

\* the JavaScript of the page runs: the token functions can be called
PageRuns == uiPage.pc \in {"awaitCallback", "awaitRefresh", "connected"}

\* what a step of the web UI did, for the history variable uiEvent
UiEvent(op, by, request, joined, stored, connect, login, result) ==
    Some([op |-> op, by |-> by, request |-> request, joined |-> joined, stored |-> stored,
          connectGateway |-> connect, login |-> login, result |-> result, response |-> None])

\* the event of a step in which the token endpoint answered with resp
Answered(ev, resp) == Some([ev[1] EXCEPT !.response = Some(resp)])

\* the timer callbacks that may await a refresh at the same time
MaxTimers == 1

\* const REFRESH_BUFFER_MS = 5 * 60_000
REFRESH_BUFFER_MS == 300000

\* the timer state a handler works on: the handle refreshTimer, the window's
\* pending timeouts [id, due, cb] (cb: an onRefreshed callback was passed),
\* the fired timers whose callback awaits a refresh, who asked last for the
\* timer, and the timer calls made in this step
TimerState ==
    [refreshTimer |-> refreshTimer, pending |-> timers.pending, running |-> timers.running,
     app |-> timers.app, log |-> <<>>]

\* the timer state of a document that has just been loaded
NoTimers ==
    [refreshTimer |-> None, pending |-> {}, running |-> <<>>, app |-> "none", log |-> <<>>]

\* the step leaves the timer state ts
SetTimers(ts) ==
    /\ refreshTimer' = ts.refreshTimer
    /\ timers' = [pending |-> ts.pending, running |-> ts.running, app |-> ts.app]
    /\ timerEvent' = ts.log

\* the step makes no timer call
TimersUnchanged ==
    /\ timerEvent' = <<>>
    /\ UNCHANGED <<refreshTimer, timers>>

\* one timer call, for the history variable timerEvent
TimerCall(op, id, delay, token) == [op |-> op, id |-> id, delay |-> delay, token |-> token]

\* setTimeout returns an id no timer has; ids are named by the least number
\* that is neither pending, nor running, nor held in refreshTimer
UsedTimerIds(ts) ==
    {tm.id : tm \in ts.pending} \cup {ts.running[i].id : i \in 1..Len(ts.running)}
    \cup (IF ts.refreshTimer = None THEN {} ELSE {ts.refreshTimer[1]})
FreshTimerId(ts) ==
    CHOOSE i \in 1..(Cardinality(UsedTimerIds(ts)) + 1) :
        /\ i \notin UsedTimerIds(ts)
        /\ \A j \in 1..(i - 1) : j \in UsedTimerIds(ts)

\* cancelTokenRefresh(): clearTimeout of the held handle (no effect on a
\* timer that has fired), and the handle is dropped
cancelTokenRefresh(ts) ==
    IF ts.refreshTimer = None THEN ts
    ELSE [ts EXCEPT !.pending = {tm \in @ : tm.id # ts.refreshTimer[1]},
                    !.refreshTimer = None,
                    !.log = Append(@, TimerCall("clearTimeout", ts.refreshTimer[1], 0, ""))]

\* mutant: a new timer is armed without cancelling the one held
scheduleTokenRefresh_NoCancel(ts, storage, t, cb) ==
    LET tokens == loadOidcTokens(storage) IN
    IF tokens = None \/ tokens[1].refresh_token = None THEN ts
    ELSE LET id == FreshTimerId(ts)
             left == tokens[1].expires_at - t - REFRESH_BUFFER_MS
             delay == IF left > 0 THEN left ELSE 0
         IN [ts EXCEPT !.refreshTimer = Some(id),
                       !.pending = @ \cup {[id |-> id, due |-> t + delay, cb |-> cb]},
                       !.log = Append(@, TimerCall("setTimeout", id, delay, ""))]

\* scheduleTokenRefresh(onRefreshed) at instant t: the held timer is
\* cancelled; with a stored refresh token a new one is armed with delay
\* max(0, expires_at - now - REFRESH_BUFFER_MS)
scheduleTokenRefresh(ts, storage, t, cb) ==
    LET cancelled == cancelTokenRefresh(ts)
        tokens == loadOidcTokens(storage)
    IN IF tokens = None \/ tokens[1].refresh_token = None THEN cancelled
       ELSE LET id == FreshTimerId(cancelled)
                left == tokens[1].expires_at - t - REFRESH_BUFFER_MS
                delay == IF left > 0 THEN left ELSE 0
            IN [cancelled EXCEPT !.refreshTimer = Some(id),
                                 !.pending = @ \cup {[id |-> id, due |-> t + delay, cb |-> cb]},
                                 !.log = Append(@, TimerCall("setTimeout", id, delay, ""))]

\* mutant: the timer callback arms the next timer whatever the refresh gave
TimerCallbackResumes_AlwaysReschedules(ts, r, storage, t, tokens) ==
    LET done == [ts EXCEPT !.log = Append(@, TimerCall("refreshed", r.id, 0,
                                               IF tokens = None THEN "" ELSE tokens[1].id_token))]
        told == IF r.cb /\ tokens # None
                THEN [done EXCEPT !.log = Append(@, TimerCall("onRefreshed", r.id, 0,
                                                              tokens[1].id_token))]
                ELSE done
    IN scheduleTokenRefresh(told, storage, t, r.cb)

\* the timer callback r goes on after `await refreshOidcTokens()`: with
\* tokens, onRefreshed (if one was passed) gets the new id_token and the next
\* timer is armed; with null nothing is done
TimerCallbackResumes(ts, r, storage, t, tokens) ==
    LET done == [ts EXCEPT !.log = Append(@, TimerCall("refreshed", r.id, 0,
                                               IF tokens = None THEN "" ELSE tokens[1].id_token))]
    IN IF tokens = None THEN done
       ELSE LET told == IF r.cb
                        THEN [done EXCEPT !.log = Append(@, TimerCall("onRefreshed", r.id, 0,
                                                                      tokens[1].id_token))]
                        ELSE done
            IN scheduleTokenRefresh(told, storage, t, r.cb)

\* the timer callbacks in `waiting` go on, in the order they began to wait
RECURSIVE TimerCallbacksResume(_, _, _, _, _)
TimerCallbacksResume(ts, waiting, storage, t, tokens) ==
    IF waiting = <<>> THEN ts
    ELSE TimerCallbacksResume(TimerCallbackResumes(ts, Head(waiting), storage, t, tokens),
                              Tail(waiting), storage, t, tokens)

\* startOidcLogin(): a new verifier and state are stored and the browser
\* leaves for the SSO login
StartOidcLogin(storage, page) ==
    [storage |-> [storage EXCEPT !.pkce = Some([verifier |-> "v" \o ToString(page.logins + 1),
                                                state |-> StateOf(page.logins + 1)])],
     page |-> [page EXCEPT !.pc = "redirected", !.connected = FALSE, !.logins = @ + 1]]

\* connectGateway(host)
ConnectGateway(storage, page) ==
    [storage |-> storage, page |-> [page EXCEPT !.pc = "connected", !.connected = TRUE]]

\* handleConnected, normal flow, the callback of ensureValidOidcToken(): with
\* no token the browser is sent to the SSO login, else the gateway is
\* connected after the refresh timer is scheduled
AfterEnsureValidOidcToken(storage, page, ts, token, t) ==
    IF token = None
    THEN LET next == StartOidcLogin(storage, page) IN
         [storage |-> next.storage, page |-> next.page, timer |-> ts]
    ELSE LET next == ConnectGateway(storage, page) IN
         [storage |-> next.storage, page |-> next.page,
          timer |-> [scheduleTokenRefresh(ts, storage, t, FALSE) EXCEPT !.app = "scheduled"]]

\* handleConnected, callback flow, the callback of handleOidcCallback(): the
\* tab is synced with the location, the refresh timer is scheduled, the
\* gateway is connected and polling starts, whatever handleOidcCallback
\* resolved to
AfterHandleOidcCallback(storage, page, ts, tokens, t) ==
    LET next == ConnectGateway(storage, [page EXCEPT !.synced = TRUE, !.polling = TRUE]) IN
    [storage |-> next.storage, page |-> next.page,
     timer |-> [scheduleTokenRefresh(ts, storage, t, FALSE) EXCEPT !.app = "scheduled"]]

\* the request refreshOidcTokens sends for caller p with the stored tokens
RefreshRequest(p, existing) ==
    [grant |-> "refresh_token", by |-> p, refresh_token |-> existing.refresh_token[1],
     code |-> "", verifier |-> ""]

\* mutant: a call made while a refresh is in flight sends its own request
RefreshOidcTokensBegin_NoMutex(p, op) ==
    LET existing == loadOidcTokens(sessionStorage) IN
    IF existing = None \/ existing[1].refresh_token = None
    THEN /\ uiEvent' = UiEvent(op, p, FALSE, FALSE, FALSE, FALSE, FALSE, None)
         /\ UNCHANGED <<refreshInFlight, uiCall, tokenRequests>>
    ELSE /\ refreshInFlight' = Some(p)
         /\ tokenRequests' = tokenRequests \cup {RefreshRequest(p, existing[1])}
         /\ uiCall' = [uiCall EXCEPT ![p] = [op |-> op, awaits |-> p]]
         /\ uiEvent' = UiEvent(op, p, TRUE, FALSE, FALSE, FALSE, FALSE, None)

\* refreshOidcTokens() up to its await, called by p inside op: the promise in
\* flight is returned if there is one; without a stored refresh token the
\* result is null; else the request is sent and its promise kept
RefreshOidcTokensBegin(p, op) ==
    LET existing == loadOidcTokens(sessionStorage) IN
    IF refreshInFlight # None
    THEN /\ uiCall' = [uiCall EXCEPT ![p] = [op |-> op, awaits |-> refreshInFlight[1]]]
         /\ uiEvent' = UiEvent(op, p, FALSE, TRUE, FALSE, FALSE, FALSE, None)
         /\ UNCHANGED <<refreshInFlight, tokenRequests>>
    ELSE IF existing = None \/ existing[1].refresh_token = None
    THEN /\ uiEvent' = UiEvent(op, p, FALSE, FALSE, FALSE, FALSE, FALSE, None)
         /\ UNCHANGED <<refreshInFlight, uiCall, tokenRequests>>
    ELSE /\ refreshInFlight' = Some(p)
         /\ tokenRequests' = tokenRequests \cup {RefreshRequest(p, existing[1])}
         /\ uiCall' = [uiCall EXCEPT ![p] = [op |-> op, awaits |-> p]]
         /\ uiEvent' = UiEvent(op, p, TRUE, FALSE, FALSE, FALSE, FALSE, None)

\* a caller calls refreshOidcTokens()
RefreshOidcTokensStart(p) ==
    /\ PageRuns
    /\ uiCall[p] = UiIdleCall
    /\ TimersUnchanged
    /\ RefreshOidcTokensBegin(p, "refreshOidcTokens")
    /\ UNCHANGED <<sessionStorage, uiPage>>
    /\ UNCHANGED <<now, AZURE_AD_CONFIG, tokenCache, issued, fetched, call, event>>
    /\ UNCHANGED authVars
    /\ UNCHANGED oidcVars
    /\ UNCHANGED ssaVars
    /\ UNCHANGED toolVars

\* a caller reads getValidOidcToken()
GetValidOidcToken(p) ==
    /\ PageRuns
    /\ uiCall[p] = UiIdleCall
    /\ TimersUnchanged
    /\ uiEvent' = UiEvent("getValidOidcToken", p, FALSE, FALSE, FALSE, FALSE, FALSE,
                          getValidOidcToken(sessionStorage, now))
    /\ UNCHANGED <<sessionStorage, refreshInFlight, uiPage, uiCall, tokenRequests>>
    /\ UNCHANGED <<now, AZURE_AD_CONFIG, tokenCache, issued, fetched, call, event>>
    /\ UNCHANGED authVars
    /\ UNCHANGED oidcVars
    /\ UNCHANGED ssaVars
    /\ UNCHANGED toolVars

\* a caller calls ensureValidOidcToken(): the valid stored token at once,
\* else what refreshOidcTokens gives
EnsureValidOidcTokenStart(p) ==
    /\ PageRuns
    /\ uiCall[p] = UiIdleCall
    /\ TimersUnchanged
    /\ LET quick == getValidOidcToken(sessionStorage, now) IN
       IF quick # None
       THEN /\ uiEvent' = UiEvent("ensureValidOidcToken", p, FALSE, FALSE, FALSE, FALSE, FALSE,
                                  quick)
            /\ UNCHANGED <<refreshInFlight, uiCall, tokenRequests>>
       ELSE RefreshOidcTokensBegin(p, "ensureValidOidcToken")
    /\ UNCHANGED <<sessionStorage, uiPage>>
    /\ UNCHANGED <<now, AZURE_AD_CONFIG, tokenCache, issued, fetched, call, event>>
    /\ UNCHANGED authVars
    /\ UNCHANGED oidcVars
    /\ UNCHANGED ssaVars
    /\ UNCHANGED toolVars

\* the request handleOidcCallback sends
CodeRequest(loc, pkce) ==
    [grant |-> "authorization_code", by |-> "page", refresh_token |-> "",
     code |-> loc.code, verifier |-> pkce.verifier]

\* mutant: the PKCE state is read and left in the storage
HandleOidcCallbackStart_KeepsPkce(loc) ==
    LET page == [uiPage EXCEPT !.pc = "loading", !.connected = FALSE,
                               !.location = [path |-> loc.path, query |-> loc.query],
                               !.synced = FALSE, !.polling = FALSE]
    IN
    IF loc.code = "" \/ loc.state = ""
    THEN LET next == AfterHandleOidcCallback(sessionStorage, page, NoTimers, None, now) IN
         /\ SetTimers(next.timer)
         /\ sessionStorage' = next.storage
         /\ uiPage' = next.page
         /\ tokenRequests' = {}
         /\ uiEvent' = UiEvent("handleOidcCallback", "page", FALSE, FALSE, FALSE, TRUE, FALSE, None)
    ELSE LET pkce == sessionStorage.pkce
             read == [page EXCEPT !.callbacks = @ \cup {loc.state}]
         IN IF pkce = None \/ pkce[1].state # loc.state
            THEN LET next == AfterHandleOidcCallback(sessionStorage, read, NoTimers, None, now) IN
                 /\ SetTimers(next.timer)
                 /\ sessionStorage' = next.storage
                 /\ uiPage' = next.page
                 /\ tokenRequests' = {}
                 /\ uiEvent' = UiEvent("handleOidcCallback", "page", FALSE, FALSE, FALSE, TRUE,
                                       FALSE, None)
            ELSE /\ SetTimers(NoTimers)
                 /\ sessionStorage' = sessionStorage
                 /\ uiPage' = [read EXCEPT !.pc = "awaitCallback"]
                 /\ tokenRequests' = {CodeRequest(loc, pkce[1])}
                 /\ uiEvent' = UiEvent("handleOidcCallback", "page", TRUE, FALSE, FALSE, FALSE,
                                       FALSE, None)

\* handleConnected on /callback?code=..&state=..: handleOidcCallback() up to
\* its await, and the callback of its promise if it resolves at once.  With
\* an empty code or state it returns null; else the PKCE state is loaded and
\* removed, and the code is exchanged only if its state is the callback's.
HandleOidcCallbackStart(loc) ==
    LET page == [uiPage EXCEPT !.pc = "loading", !.connected = FALSE,
                               !.location = [path |-> loc.path, query |-> loc.query],
                               !.synced = FALSE, !.polling = FALSE]
    IN
    IF loc.code = "" \/ loc.state = ""
    THEN LET next == AfterHandleOidcCallback(sessionStorage, page, NoTimers, None, now) IN
         /\ SetTimers(next.timer)
         /\ sessionStorage' = next.storage
         /\ uiPage' = next.page
         /\ tokenRequests' = {}
         /\ uiEvent' = UiEvent("handleOidcCallback", "page", FALSE, FALSE, FALSE, TRUE, FALSE, None)
    ELSE LET pkce == sessionStorage.pkce
             cleared == [sessionStorage EXCEPT !.pkce = None]
             read == [page EXCEPT !.callbacks = @ \cup {loc.state}]
         IN IF pkce = None \/ pkce[1].state # loc.state
            THEN LET next == AfterHandleOidcCallback(cleared, read, NoTimers, None, now) IN
                 /\ SetTimers(next.timer)
                 /\ sessionStorage' = next.storage
                 /\ uiPage' = next.page
                 /\ tokenRequests' = {}
                 /\ uiEvent' = UiEvent("handleOidcCallback", "page", FALSE, FALSE, FALSE, TRUE,
                                       FALSE, None)
            ELSE /\ SetTimers(NoTimers)
                 /\ sessionStorage' = cleared
                 /\ uiPage' = [read EXCEPT !.pc = "awaitCallback"]
                 /\ tokenRequests' = {CodeRequest(loc, pkce[1])}
                 /\ uiEvent' = UiEvent("handleOidcCallback", "page", TRUE, FALSE, FALSE, FALSE,
                                       FALSE, None)

\* the browser loads the page at loc and handleConnected runs; a state in
\* the location is one a login has drawn, or none of them.  The page's
\* JavaScript starts anew (no refresh in flight, no caller, the requests of
\* the page before and its timers are forgotten); sessionStorage is the
\* tab's and stays.  On the normal flow the tab is synced with the location,
\* ensureValidOidcToken() is called (its callback connects the gateway or
\* starts the SSO login) and polling starts.
PageLoad(loc) ==
    LET page == [uiPage EXCEPT !.pc = "loading", !.connected = FALSE,
                               !.location = [path |-> loc.path, query |-> loc.query],
                               !.synced = TRUE, !.polling = TRUE]
        quick == getValidOidcToken(sessionStorage, now)
        existing == loadOidcTokens(sessionStorage)
        refreshes == /\ ~isOidcCallback(loc)
                     /\ quick = None
                     /\ existing # None
                     /\ existing[1].refresh_token # None
    IN
    /\ loc.state \in {"", "forged"} \cup { StateOf(n) : n \in 1..uiPage.logins }
    /\ refreshInFlight' = IF refreshes THEN Some("page") ELSE None
    /\ uiCall' = [p \in UiCallers |-> UiIdleCall]
    /\ IF isOidcCallback(loc)
       THEN HandleOidcCallbackStart(loc)
       ELSE IF refreshes
       THEN /\ SetTimers(NoTimers)
            /\ sessionStorage' = sessionStorage
            /\ uiPage' = [page EXCEPT !.pc = "awaitRefresh"]
            /\ tokenRequests' = {RefreshRequest("page", existing[1])}
            /\ uiEvent' = UiEvent("handleConnected", "page", TRUE, FALSE, FALSE, FALSE,
                                  FALSE, None)
       ELSE LET next == AfterEnsureValidOidcToken(sessionStorage, page, NoTimers, quick, now) IN
            /\ quick = None => uiPage.logins < MaxLogins
            /\ SetTimers(next.timer)
            /\ sessionStorage' = next.storage
            /\ uiPage' = next.page
            /\ tokenRequests' = {}
            /\ uiEvent' = UiEvent("handleConnected", "page", FALSE, FALSE, FALSE,
                                  quick # None, quick = None, quick)
    /\ UNCHANGED <<now, AZURE_AD_CONFIG, tokenCache, issued, fetched, call, event>>
    /\ UNCHANGED authVars
    /\ UNCHANGED oidcVars
    /\ UNCHANGED ssaVars
    /\ UNCHANGED toolVars

\* the token endpoint answers the code exchange of handleOidcCallback: the
\* tokens are stored if the answer is a success with both tokens, and the
\* callback of handleConnected runs
CodeExchangeResponds(req, resp) ==
    LET tokens == TokensOfResponse(resp, None, now)
        stored == IF tokens = None THEN sessionStorage
                  ELSE [sessionStorage EXCEPT !.tokens = tokens]
        next == AfterHandleOidcCallback(stored, uiPage, TimerState, tokens, now)
    IN /\ SetTimers(next.timer)
       /\ sessionStorage' = next.storage
       /\ uiPage' = next.page
       /\ tokenRequests' = tokenRequests \ {req}
       /\ uiEvent' = Answered(UiEvent("handleOidcCallback settled", "page", FALSE, FALSE,
                                      tokens # None, TRUE, FALSE, tokens), resp)
       /\ UNCHANGED <<refreshInFlight, uiCall>>

\* mutant: the in-flight marker is cleared only when the refresh succeeded
RefreshResponds_KeepsMarkerOnFailure(req, resp) ==
    LET tokens == TokensOfResponse(resp, Some(req.refresh_token), now)
        stored == IF tokens = None THEN sessionStorage
                  ELSE [sessionStorage EXCEPT !.tokens = tokens]
        pageAwaits == req.by = "page" /\ uiPage.pc = "awaitRefresh"
        next == IF pageAwaits
                THEN AfterEnsureValidOidcToken(stored, uiPage, TimerState, IdTokenOf(tokens), now)
                ELSE [storage |-> stored, page |-> uiPage, timer |-> TimerState]
        waiting == SelectSeq(timers.running, LAMBDA r : r.awaits = req.by)
        others == SelectSeq(timers.running, LAMBDA r : r.awaits # req.by)
    IN /\ (pageAwaits /\ tokens = None) => uiPage.logins < MaxLogins
       /\ SetTimers(TimerCallbacksResume([next.timer EXCEPT !.running = others], waiting,
                                         next.storage, now, tokens))
       /\ sessionStorage' = next.storage
       /\ uiPage' = next.page
       /\ refreshInFlight' = IF tokens = None THEN refreshInFlight ELSE None
       /\ tokenRequests' = tokenRequests \ {req}
       /\ uiCall' = [p \in UiCallers |-> IF uiCall[p].awaits = req.by THEN UiIdleCall
                                         ELSE uiCall[p]]
       /\ uiEvent' = Answered(UiEvent("refreshOidcTokens settled", req.by, FALSE, FALSE,
                                      tokens # None, pageAwaits /\ tokens # None,
                                      pageAwaits /\ tokens = None, tokens), resp)

\* the token endpoint answers a refresh request: the tokens are stored if the
\* answer is a success with both tokens, the mutex is released, and every
\* caller that awaits the promise goes on with its result; if the page awaits
\* it, the callback of handleConnected runs; then the timer callbacks that
\* await it go on
RefreshResponds(req, resp) ==
    LET tokens == TokensOfResponse(resp, Some(req.refresh_token), now)
        stored == IF tokens = None THEN sessionStorage
                  ELSE [sessionStorage EXCEPT !.tokens = tokens]
        pageAwaits == req.by = "page" /\ uiPage.pc = "awaitRefresh"
        next == IF pageAwaits
                THEN AfterEnsureValidOidcToken(stored, uiPage, TimerState, IdTokenOf(tokens), now)
                ELSE [storage |-> stored, page |-> uiPage, timer |-> TimerState]
        waiting == SelectSeq(timers.running, LAMBDA r : r.awaits = req.by)
        others == SelectSeq(timers.running, LAMBDA r : r.awaits # req.by)
    IN /\ (pageAwaits /\ tokens = None) => uiPage.logins < MaxLogins
       /\ SetTimers(TimerCallbacksResume([next.timer EXCEPT !.running = others], waiting,
                                         next.storage, now, tokens))
       /\ sessionStorage' = next.storage
       /\ uiPage' = next.page
       /\ refreshInFlight' = None
       /\ tokenRequests' = tokenRequests \ {req}
       /\ uiCall' = [p \in UiCallers |-> IF uiCall[p].awaits = req.by THEN UiIdleCall
                                         ELSE uiCall[p]]
       /\ uiEvent' = Answered(UiEvent("refreshOidcTokens settled", req.by, FALSE, FALSE,
                                      tokens # None, pageAwaits /\ tokens # None,
                                      pageAwaits /\ tokens = None, tokens), resp)

\* the token endpoint answers a request in flight
UiTokenEndpointResponds(req, resp) ==
    /\ req \in tokenRequests
    /\ IF req.grant = "authorization_code"
       THEN CodeExchangeResponds(req, resp)
       ELSE RefreshResponds(req, resp)
    /\ UNCHANGED <<now, AZURE_AD_CONFIG, tokenCache, issued, fetched, call, event>>
    /\ UNCHANGED authVars
    /\ UNCHANGED oidcVars
    /\ UNCHANGED ssaVars
    /\ UNCHANGED toolVars

\* a timer of scheduleTokenRefresh is due: its callback calls
\* refreshOidcTokens() and awaits the result; without a stored refresh token
\* the result is null at once
TimerFires(tm) ==
    /\ PageRuns
    /\ tm \in timers.pending
    /\ now >= tm.due
    /\ Len(timers.running) < MaxTimers
    /\ LET existing == loadOidcTokens(sessionStorage)
           fired == [TimerState EXCEPT !.pending = @ \ {tm}]
           callback(awaits) == [id |-> tm.id, awaits |-> awaits, cb |-> tm.cb]
       IN IF refreshInFlight # None
          THEN /\ SetTimers([fired EXCEPT !.running = Append(@, callback(refreshInFlight[1]))])
               /\ uiEvent' = UiEvent("refreshTimer", "timer", FALSE, TRUE, FALSE, FALSE, FALSE, None)
               /\ UNCHANGED <<refreshInFlight, tokenRequests>>
          ELSE IF existing = None \/ existing[1].refresh_token = None
          THEN /\ SetTimers(TimerCallbackResumes(fired, callback(""), sessionStorage, now, None))
               /\ uiEvent' = UiEvent("refreshTimer", "timer", FALSE, FALSE, FALSE, FALSE, FALSE, None)
               /\ UNCHANGED <<refreshInFlight, tokenRequests>>
          ELSE /\ SetTimers([fired EXCEPT !.running = Append(@, callback("timer"))])
               /\ refreshInFlight' = Some("timer")
               /\ tokenRequests' = tokenRequests \cup {RefreshRequest("timer", existing[1])}
               /\ uiEvent' = UiEvent("refreshTimer", "timer", TRUE, FALSE, FALSE, FALSE, FALSE, None)
    /\ UNCHANGED <<sessionStorage, uiPage, uiCall>>
    /\ UNCHANGED <<now, AZURE_AD_CONFIG, tokenCache, issued, fetched, call, event>>
    /\ UNCHANGED authVars
    /\ UNCHANGED oidcVars
    /\ UNCHANGED ssaVars
    /\ UNCHANGED toolVars

\* the application calls scheduleTokenRefresh(onRefreshed) after a token
\* acquisition, with or without the callback
ScheduleTokenRefresh(cb) ==
    /\ uiPage.pc = "connected"
    /\ Cardinality(timers.pending) <= MaxTimers
    /\ SetTimers([scheduleTokenRefresh(TimerState, sessionStorage, now, cb)
                     EXCEPT !.app = "scheduled"])
    /\ uiEvent' = None
    /\ UNCHANGED <<sessionStorage, refreshInFlight, uiPage, uiCall, tokenRequests>>
    /\ UNCHANGED <<now, AZURE_AD_CONFIG, tokenCache, issued, fetched, call, event>>
    /\ UNCHANGED authVars
    /\ UNCHANGED oidcVars
    /\ UNCHANGED ssaVars
    /\ UNCHANGED toolVars

\* handleDisconnected(host): the refresh timer is cancelled and polling stops
HandleDisconnected ==
    /\ PageRuns
    /\ SetTimers([cancelTokenRefresh(TimerState) EXCEPT !.app = "cancelled"])
    /\ uiPage' = [uiPage EXCEPT !.polling = FALSE]
    /\ uiEvent' = None
    /\ UNCHANGED <<sessionStorage, refreshInFlight, uiCall, tokenRequests>>
    /\ UNCHANGED <<now, AZURE_AD_CONFIG, tokenCache, issued, fetched, call, event>>
    /\ UNCHANGED authVars
    /\ UNCHANGED oidcVars
    /\ UNCHANGED ssaVars
    /\ UNCHANGED toolVars

\* time passes
UiTick ==
    /\ \E t \in UiInstants : t > now /\ now' = t
    /\ uiEvent' = None
    /\ TimersUnchanged
    /\ UNCHANGED <<sessionStorage, refreshInFlight, uiPage, uiCall, tokenRequests>>
    /\ UNCHANGED <<AZURE_AD_CONFIG, tokenCache, issued, fetched, call, event>>
    /\ UNCHANGED authVars
    /\ UNCHANGED oidcVars
    /\ UNCHANGED ssaVars
    /\ UNCHANGED toolVars

InitUi == InitOidc

NextUi ==
    \/ \E loc \in Locations : PageLoad(loc)
    \/ \E p \in UiCallers : RefreshOidcTokensStart(p)
    \/ \E p \in UiCallers : EnsureValidOidcTokenStart(p)
    \/ \E p \in UiCallers : GetValidOidcToken(p)
    \/ \E req \in tokenRequests : \E resp \in UiTokenResponses(req.grant) :
          UiTokenEndpointResponds(req, resp)
    \/ UiTick

SpecUi == InitUi /\ [][NextUi]_vars

\* the proactive refresh: the page (which passes no onRefreshed), its refresh
\* timer, one more caller of refreshOidcTokens, and the application
\* scheduling the timer with its onRefreshed callback and cancelling it
TimerCallers == {"u1"}

\* the page loads of the proactive refresh: the app, and the callback of the
\* first login of this tab
TimerLocations ==
    {loc \in Locations : loc.path = "/" \/ (loc.query /\ loc.state = StateOf(1))}

InitTimer == InitOidc

NextTimer ==
    \/ \E loc \in TimerLocations : PageLoad(loc)
    \/ \E p \in TimerCallers : RefreshOidcTokensStart(p)
    \/ \E req \in tokenRequests : \E resp \in UiTokenResponses(req.grant) :
          UiTokenEndpointResponds(req, resp)
    \/ \E tm \in timers.pending : TimerFires(tm)
    \/ ScheduleTokenRefresh(TRUE)
    \/ HandleDisconnected
    \/ UiTick

SpecTimer == InitTimer /\ [][NextTimer]_vars

(***************************************************************************)
(* Search tool: getSSAToken(), the service token with its one-entry cache. *)
(***************************************************************************)
\* ssaTokenCache.expiresAt > Date.now() + 60_000
SSA_CACHE_BUFFER_MS == 60000

\* data.expires_in ?? 3600
SSA_DEFAULT_EXPIRES_IN == 3600

\* the tool calls that may run getSSAToken at the same time
SsaCallers == {"t1", "t2"}

\* the instants the clock takes (ms): for a 3600 s token fetched at 0, five
\* minutes before its expiry, just more than one minute before it, and one
\* minute before it
SsaInstants == {0, 3300000, 3539999, 3540000}

\* process.env at module load: the credentials set, and the secret missing
EcsConfigs ==
    { [clientId |-> "id", clientSecret |-> "secret", tokenUrl |-> "url"],
      [clientId |-> "id", clientSecret |-> "", tokenUrl |-> "url"] }

\* what the token endpoint may answer; the token it issues at t is named
\* after t
SsaTokenResponses(t) ==
    { [kind |-> "ok", status |-> 200, access_token |-> Some("ssa" \o ToString(t)),
       expires_in |-> e] : e \in {None, Some(301)} }
    \cup { [kind |-> "ok", status |-> 200, access_token |-> None, expires_in |-> None],
           [kind |-> "http", status |-> 500, access_token |-> None, expires_in |-> None],
           [kind |-> "throw", status |-> 0, access_token |-> None, expires_in |-> None] }

\* the outcomes of getSSAToken: the token (from the cache or fetched), or an
\* error thrown
SsaReturned(from, token) == Some([kind |-> from, token |-> token, error |-> ""])
SsaThrown(error) == Some([kind |-> "throw", token |-> "", error |-> error])

\* the cache check of getSSAToken
SsaCacheUsable(cache, t) == cache # None /\ cache[1].expiresAt > t + SSA_CACHE_BUFFER_MS

\* getSSAToken() of caller p up to its await: the cached token if it is
\* usable, an error if the credentials are not configured, else the request
\* is sent
GetSSATokenStart(p) ==
    /\ ssaCall[p].pc = "idle"
    /\ IF SsaCacheUsable(ssaTokenCache, now)
       THEN ssaCall' = [ssaCall EXCEPT ![p] =
                           [pc |-> "idle", last |-> SsaReturned("cache", ssaTokenCache[1].token)]]
       ELSE IF ECS_CONFIG.clientId = "" \/ ECS_CONFIG.clientSecret = "" \/ ECS_CONFIG.tokenUrl = ""
       THEN ssaCall' = [ssaCall EXCEPT ![p] =
                           [pc |-> "idle",
                            last |-> SsaThrown("Starfleet SSA credentials not configured")]]
       ELSE ssaCall' = [ssaCall EXCEPT ![p] = [pc |-> "fetching", last |-> None]]
    /\ UNCHANGED <<ECS_CONFIG, ssaTokenCache>>
    /\ UNCHANGED brokerVars
    /\ UNCHANGED authVars
    /\ UNCHANGED oidcVars
    /\ UNCHANGED uiVars
    /\ UNCHANGED toolVars

\* the token endpoint answers the request of p: a success with a token is
\* cached with its expiry and returned, anything else is thrown
SsaTokenEndpointResponds(p, resp) ==
    /\ ssaCall[p].pc = "fetching"
    /\ IF resp.kind = "throw"
       THEN /\ ssaCall' = [ssaCall EXCEPT ![p] = [pc |-> "idle", last |-> SsaThrown("fetch failed")]]
            /\ UNCHANGED ssaTokenCache
       ELSE IF resp.kind = "http"
       THEN /\ ssaCall' = [ssaCall EXCEPT ![p] =
                              [pc |-> "idle",
                               last |-> SsaThrown("SSA token error (" \o ToString(resp.status)
                                                      \o ")")]]
            /\ UNCHANGED ssaTokenCache
       ELSE IF resp.access_token = None
       THEN /\ ssaCall' = [ssaCall EXCEPT ![p] =
                              [pc |-> "idle",
                               last |-> SsaThrown("No access_token in SSA response")]]
            /\ UNCHANGED ssaTokenCache
       ELSE LET expiresIn == IF resp.expires_in = None THEN SSA_DEFAULT_EXPIRES_IN
                             ELSE resp.expires_in[1]
            IN /\ ssaTokenCache' = Some([token |-> resp.access_token[1],
                                         expiresAt |-> now + expiresIn * 1000])
               /\ ssaCall' = [ssaCall EXCEPT ![p] =
                                 [pc |-> "idle",
                                  last |-> SsaReturned("fetch", resp.access_token[1])]]
    /\ UNCHANGED ECS_CONFIG
    /\ UNCHANGED brokerVars
    /\ UNCHANGED authVars
    /\ UNCHANGED oidcVars
    /\ UNCHANGED uiVars
    /\ UNCHANGED toolVars

\* time passes
SsaTick ==
    /\ \E t \in SsaInstants : t > now /\ now' = t
    /\ ssaCall' = [p \in SsaCallers |-> [ssaCall[p] EXCEPT !.last = None]]
    /\ UNCHANGED <<ECS_CONFIG, ssaTokenCache>>
    /\ UNCHANGED <<AZURE_AD_CONFIG, tokenCache, issued, fetched, call, event>>
    /\ UNCHANGED authVars
    /\ UNCHANGED oidcVars
    /\ UNCHANGED uiVars
    /\ UNCHANGED toolVars

InitSsa ==
    /\ now = 0
    /\ AZURE_AD_CONFIG = [clientId |-> "app", clientSecret |-> "s3", tenantId |-> "tid"]
    /\ tokenCache = <<>>
    /\ issued = 0
    /\ fetched = <<>>
    /\ call = [p \in Callers |-> IdleCall]
    /\ event = None
    /\ AuthIdle
    /\ OidcIdle
    /\ UiIdle
    /\ ECS_CONFIG \in EcsConfigs
    /\ ssaTokenCache = None
    /\ ssaCall = [p \in {"t1", "t2"} |-> [pc |-> "idle", last |-> None]]
    /\ ToolIdle

NextSsa ==
    \/ \E p \in SsaCallers : GetSSATokenStart(p)
    \/ \E p \in SsaCallers, resp \in SsaTokenResponses(now) : SsaTokenEndpointResponds(p, resp)
    \/ SsaTick

SpecSsa == InitSsa /\ [][NextSsa]_vars

(***************************************************************************)
(* Claims about the TokenBroker (specification SpecBroker).                *)
(***************************************************************************)
\* the last step ran the part of an operation that reads the cache
EventRead == event # None /\ event[1].read # None

\* the operation of the last step returned ok in the step that read the cache
ReturnedFromCache ==
    /\ EventRead
    /\ event[1].returned # None
    /\ event[1].returned[1].ok

\* the last successful fetch for the operation and scopes of the last step
FetchedFor == fetched[<<event[1].kind, event[1].scopes>>]

HasFetched == <<event[1].kind, event[1].scopes>> \in DOMAIN fetched

\* C1: a cache entry is returned to a caller only if its expiresAt is strictly
\* greater than now + 5 minutes; an entry inside the buffer is treated as
\* absent: the operation does not return in that step and a fetch is issued.
C1_BufferedExpiry ==
    EventRead =>
        LET read == event[1].read[1] IN
        /\ ReturnedFromCache =>
              /\ read.entry # None
              /\ read.entry[1].expiresAt > read.at + 300000
              /\ event[1].returned[1].accessToken = read.entry[1].accessToken
        /\ (read.entry # None /\ read.entry[1].expiresAt <= read.at + 300000) =>
              /\ event[1].returned = None
              /\ read.requested
              /\ call[event[1].caller].pc \in {"silentFetch", "oboFetch"}

\* C1 witness: an entry that has not expired yet but is inside the buffer was
\* read, and the operation issued a fetch instead of returning it
C1_Witness ==
    /\ EventRead
    /\ event[1].read[1].entry # None
    /\ event[1].read[1].entry[1].expiresAt > event[1].read[1].at
    /\ event[1].read[1].entry[1].expiresAt <= event[1].read[1].at + 300000
    /\ event[1].read[1].requested
    /\ event[1].returned = None

\* C2: the cache is keyed by scope only: when the last successful fetch for
\* the operation's scopes was made with another credential and its token is
\* still usable, the operation returns that token and issues no request.
C2_ScopeOnlyKeyCollision ==
    (/\ EventRead
     /\ HasFetched
     /\ FetchedFor.cred # event[1].assertion
     /\ FetchedFor.expiresAt > event[1].read[1].at + 300000)
    => /\ event[1].returned = Some(Ok(FetchedFor.accessToken))
       /\ ~event[1].read[1].requested
       /\ call[event[1].caller].pc \notin {"silentFetch", "oboFetch"}

\* C2 witness: exchangeTokenOBO called with assertion B returned the token
\* fetched for assertion A
C2_Witness ==
    /\ EventRead
    /\ event[1].op = "obo"
    /\ HasFetched
    /\ FetchedFor.cred \in Assertions
    /\ event[1].assertion \in Assertions \ {FetchedFor.cred}
    /\ event[1].result = Some(Ok(FetchedFor.accessToken))
    /\ event[1].reqs = 0

\* C10: acquireTokenSilent / exchangeTokenOBO called on their own: while the
\* last fetched token for the scopes is usable the call returns that token
\* with no upstream request; once it is not, the call issues one request, and
\* a call that fetched made exactly one request and, on success, left its
\* token in the one cache entry of those scopes.
C10_CacheReuse ==
    (event # None /\ event[1].op \in {"silent", "obo"}) =>
        LET e == event[1] IN
        /\ (e.read # None /\ HasFetched) =>
              IF FetchedFor.expiresAt > e.read[1].at + 300000
              THEN /\ e.result = Some(Ok(FetchedFor.accessToken))
                   /\ e.reqs = 0
                   /\ call[e.caller].pc = "idle"
              ELSE /\ e.result = None
                   /\ e.reqs = 1
                   /\ call[e.caller].pc \in {"silentFetch", "oboFetch"}
        /\ e.step = "response" =>
              /\ e.reqs = 1
              /\ e.result # None
              /\ e.result[1].ok =>
                    /\ e.cacheKey \in DOMAIN tokenCache
                    /\ tokenCache[e.cacheKey].accessToken = e.result[1].accessToken
                    /\ FetchedFor.accessToken = e.result[1].accessToken
                    /\ Cardinality(DOMAIN tokenCache) = Cardinality(DOMAIN fetched)

\* C10 witness: a call fetched the second token and the cache holds one
\* entry: the call found the first token unusable and overwrote its entry
C10_Witness ==
    /\ event # None
    /\ event[1].op \in {"silent", "obo"}
    /\ event[1].step = "response"
    /\ event[1].result = Some(Ok("at2"))
    /\ Cardinality(DOMAIN tokenCache) = 1
    /\ tokenCache[event[1].cacheKey].accessToken = "at2"

\* what exchangeTokenOBO(userToken, scopes) does up to its fetch in the
\* current state
OboStage(userToken, scopes) == StageStart(OboCacheKey(userToken, scopes))

\* C11: acquireDownstreamToken first runs acquireTokenSilent with the
\* own-app scope and keeps what it returned; if that result is a failure the
\* call returns it unchanged, reads and writes no cache entry and issues no
\* request; if it is a success the call runs exchangeTokenOBO with the silent
\* token as assertion and the caller's scopes, and returns what that returned.
C11_DownstreamComposition ==
    [][\A p \in BrokerCallers :
        /\ (call[p].pc = "idle" /\ call'[p].op = "downstream") =>
              /\ event'[1].kind = "silent"
              /\ event'[1].scopes = OUR_APP_SCOPE
              /\ event'[1].assertion = call'[p].cred
              /\ event'[1].cacheKey = SilentCacheKey(call'[p].cred, OUR_APP_SCOPE)
              /\ event'[1].result = None
        /\ (call[p].pc # "silentResolved" /\ call'[p].pc = "silentResolved") =>
              /\ event'[1].kind = "silent"
              /\ event'[1].returned # None
              /\ call'[p].silentResult = event'[1].returned
        /\ (call[p].pc = "silentResolved" /\ call'[p] # call[p]) =>
              LET silentResult == call[p].silentResult[1]
                  scopes == JoinScopes(call[p].targetScopes[1])
                  st == OboStage(silentResult.accessToken, scopes)
              IN IF ~silentResult.ok
                 THEN /\ event'[1].result = Some(silentResult)
                      /\ event'[1].read = None
                      /\ event'[1].kind = "none"
                      /\ event'[1].reqs = call[p].reqs
                      /\ call'[p].pc = "idle"
                      /\ tokenCache' = tokenCache
                      /\ issued' = issued
                 ELSE /\ event'[1].kind = "obo"
                      /\ event'[1].assertion = silentResult.accessToken
                      /\ event'[1].scopes = scopes
                      /\ event'[1].read # None
                      /\ IF st.to = "fetch"
                         THEN event'[1].result = None /\ call'[p].pc = "oboFetch"
                         ELSE event'[1].result = Some(st.result) /\ call'[p].pc = "idle"
        /\ (call[p].op = "downstream" /\ call[p].pc = "oboFetch" /\ call'[p].pc = "idle") =>
              /\ event'[1].kind = "obo"
              /\ event'[1].assertion = call[p].assertion
              /\ event'[1].returned # None
              /\ event'[1].result = event'[1].returned
    ]_vars

\* C11 witness: acquireDownstreamToken returned the failure of its
\* acquireTokenSilent step, made one request in all and ran no exchange
C11_Witness ==
    /\ event # None
    /\ event[1].op = "downstream"
    /\ event[1].step = "resume"
    /\ event[1].kind = "none"
    /\ event[1].read = None
    /\ event[1].reqs = 1
    /\ event[1].result = Some(Err("Silent token acquisition error (400): invalid_grant"))

\* one of the three configuration values is absent
AnyConfigAbsent ==
    \E f \in {"clientId", "clientSecret", "tenantId"} : AZURE_AD_CONFIG[f] = ""

\* C12: when the client id, the client secret or the tenant id is absent, no
\* call ever waits for the token endpoint or issues a request, the cache
\* stays empty, and every result an operation or a call returns is the
\* not-configured failure, returned in the step the operation started.
C12_NotConfigured ==
    AnyConfigAbsent =>
        /\ tokenCache = <<>>
        /\ issued = 0
        /\ \A p \in Callers :
              /\ call[p].pc \notin {"silentFetch", "oboFetch"}
              /\ call[p].reqs = 0
              /\ call[p].silentResult \in {None, Some(Err(NOT_CONFIGURED_ERROR))}
        /\ event # None =>
              /\ event[1].reqs = 0
              /\ event[1].read # None =>
                    /\ ~event[1].read[1].requested
                    /\ event[1].returned = Some(Err(NOT_CONFIGURED_ERROR))
              /\ event[1].returned \in {None, Some(Err(NOT_CONFIGURED_ERROR))}
              /\ event[1].result \in {None, Some(Err(NOT_CONFIGURED_ERROR))}
              /\ event[1].op \in {"silent", "obo"} => event[1].result # None
              /\ (event[1].op = "downstream" /\ event[1].step = "resume") =>
                    event[1].result # None

\* C12 witness: with the client secret absent, acquireDownstreamToken
\* returned the not-configured failure without a request
C12_Witness ==
    /\ AZURE_AD_CONFIG.clientSecret = ""
    /\ AZURE_AD_CONFIG.clientId # ""
    /\ event # None
    /\ event[1].op = "downstream"
    /\ event[1].result = Some(Err(NOT_CONFIGURED_ERROR))
    /\ event[1].reqs = 0
    /\ tokenCache = <<>>

\* the failures acquireTokenSilent (kind "silent") and exchangeTokenOBO (kind
\* "obo") report for the responses of TokenResponses: a non-success status
\* with and without a body, a success response without a token, a request
\* that timed out
RequestFailures(kind) ==
    IF kind = "silent"
    THEN { Err("Silent token acquisition error (400): invalid_grant"),
           Err("Silent token acquisition error (503): Service Unavailable"),
           Err("No access_token in refresh response"),
           Err("Silent token acquisition failed: timeout") }
    ELSE { Err("OBO token error (400): invalid_grant"),
           Err("OBO token error (503): Service Unavailable"),
           Err("No access_token in OBO response"),
           Err("OBO exchange failed: timeout") }

\* C13: when the request of acquireTokenSilent / exchangeTokenOBO settles, the
\* operation returns a result; if the result is a failure it is one of the
\* tagged failures of the operation, and the whole cache, the entry of the
\* requested key included, is as it was before the response.
C13_FailureLeavesCache ==
    [][\A p \in BrokerCallers :
        (call[p].pc \in {"silentFetch", "oboFetch"} /\ call'[p] # call[p]) =>
            /\ event'[1].step = "response"
            /\ event'[1].returned # None
            /\ LET r == event'[1].returned[1] IN
               IF r.ok
               THEN /\ r.accessToken # ""
                    /\ tokenCache'[call[p].cacheKey].accessToken = r.accessToken
               ELSE /\ r \in RequestFailures(event'[1].kind)
                    /\ tokenCache' = tokenCache
                    /\ issued' = issued
    ]_vars

\* C13 witness: a request made because the entry of the key was no longer
\* usable timed out, and the entry is still in the cache
C13_Witness ==
    /\ event # None
    /\ event[1].step = "response"
    /\ event[1].returned # None
    /\ event[1].returned[1] \in { Err("Silent token acquisition failed: timeout"),
                                  Err("OBO exchange failed: timeout") }
    /\ event[1].cacheKey \in DOMAIN tokenCache
    /\ tokenCache[event[1].cacheKey].expiresAt <= now + 300000

\* C14: with two callers interleaved at every await, a step of one call leaves
\* the other call as it is; a call whose request the endpoint answered with a
\* token returns ok with that very token and leaves it in the entry of its
\* key, whatever the other caller wrote meanwhile (the last write wins); a
\* token returned from the cache is that of a usable entry; and the only
\* failures returned are those of a failed request or of a missing
\* configuration.
C14_RaceTolerated ==
    [][\A p \in Callers :
        call'[p] # call[p] =>
            /\ \A q \in Callers \ {p} : call'[q] = call[q]
            /\ event'[1].caller = p
            /\ issued' = issued + 1 =>
                  /\ call[p].pc \in {"silentFetch", "oboFetch"}
                  /\ event'[1].result = Some(Ok("at" \o ToString(issued')))
                  /\ call[p].cacheKey \in DOMAIN tokenCache'
                  /\ tokenCache'[call[p].cacheKey].accessToken = "at" \o ToString(issued')
                  /\ tokenCache'[call[p].cacheKey].expiresAt > now + 300000
            /\ (event'[1].read # None /\ event'[1].result # None /\ event'[1].result[1].ok) =>
                  /\ event'[1].cacheKey \in DOMAIN tokenCache
                  /\ tokenCache[event'[1].cacheKey].accessToken = event'[1].result[1].accessToken
                  /\ tokenCache[event'[1].cacheKey].expiresAt > now + 300000
            /\ (event'[1].result # None /\ ~event'[1].result[1].ok) =>
                  event'[1].result[1] \in
                      RequestFailures(event'[1].kind) \cup {Err(NOT_CONFIGURED_ERROR)}
    ]_vars

\* C14 witness: two tokens were issued at the same instant and the cache has
\* one entry, so both requests were made for one key, the second before the
\* first response was written; caller c2 has just received the token of its
\* own response, which replaced the first one in the cache
C14_Witness ==
    /\ now = 0
    /\ issued = 2
    /\ Cardinality(DOMAIN tokenCache) = 1
    /\ event # None
    /\ event[1].step = "response"
    /\ event[1].op = "silent"
    /\ event[1].caller = "c2"
    /\ event[1].result = Some(Ok("at2"))
    /\ tokenCache[event[1].cacheKey].accessToken = "at2"
    /\ \A p \in Callers : call[p].pc = "idle"

\* the entry of cacheKey is present and outside the expiry buffer
EntryUsable(cacheKey) ==
    /\ cacheKey \in DOMAIN tokenCache
    /\ tokenCache[cacheKey].expiresAt > now + 300000

\* the requests one step of caller p's call issues, and what the call has
\* issued in all: a call waiting for the token endpoint has issued the
\* request it waits for
IssuesRequest(p) == call'[p].pc \in {"silentFetch", "oboFetch"} /\ call'[p].pc # call[p].pc

\* the part of C15 that does not depend on the configuration: a call of
\* acquireTokenSilent / exchangeTokenOBO issues at most one request, one of
\* acquireDownstreamToken at most two; a response is never followed by another
\* request of the same operation, and the operation returns its result, once,
\* in the step of the response; acquireDownstreamToken issues its jwt-bearer
\* request iff the silent step succeeded and the entry of the requested
\* scopes is unusable.
C15_Steps(p) ==
    /\ event'[1].reqs <= (IF event'[1].op = "downstream" THEN 2 ELSE 1)
    /\ event'[1].reqs = call[p].reqs + (IF IssuesRequest(p) THEN 1 ELSE 0)
    /\ call[p].pc \in {"silentFetch", "oboFetch"} =>
          /\ call'[p].pc \notin {"silentFetch", call[p].pc}
          /\ event'[1].returned # None
          /\ event'[1].reqs = call[p].reqs
          /\ (call[p].pc = "oboFetch" \/ call[p].op = "silent") =>
                /\ event'[1].result = event'[1].returned
                /\ call'[p].pc = "idle"
    /\ call[p].pc = "silentResolved" =>
          (IssuesRequest(p) /\ call'[p].pc = "oboFetch") <=>
              /\ call[p].silentResult[1].ok
              /\ ~EntryUsable(OboCacheKey(call[p].silentResult[1].accessToken,
                                          JoinScopes(call[p].targetScopes[1])))

\* C15 as stated: acquireDownstreamToken issues its refresh_token request iff
\* the silent entry of the own-app scope is unusable.
C15_Original ==
    [][\A p \in BrokerCallers :
        call'[p] # call[p] =>
            /\ C15_Steps(p)
            /\ (call[p].pc = "idle" /\ call'[p].op = "downstream") =>
                  (IssuesRequest(p) /\ call'[p].pc = "silentFetch") <=>
                      ~EntryUsable(SilentCacheKey(call'[p].cred, OUR_APP_SCOPE))
    ]_vars

\* C15: no internal retry.  A call of acquireTokenSilent / exchangeTokenOBO
\* issues at most one request and returns its result in the step of the
\* response; a call of acquireDownstreamToken issues at most two: a
\* refresh_token request iff the configuration is complete and the silent
\* entry of the own-app scope is unusable, and a jwt-bearer request iff the
\* silent step succeeded and the entry of the requested scopes is unusable.
C15_NoRetry ==
    [][\A p \in BrokerCallers :
        call'[p] # call[p] =>
            /\ C15_Steps(p)
            /\ (call[p].pc = "idle" /\ call'[p].op = "downstream") =>
                  (IssuesRequest(p) /\ call'[p].pc = "silentFetch") <=>
                      /\ ~AnyConfigAbsent
                      /\ ~EntryUsable(SilentCacheKey(call'[p].cred, OUR_APP_SCOPE))
    ]_vars

\* C15 witness: acquireDownstreamToken issued its two requests, the second
\* failed, and the call returned that failure without another request
C15_Witness ==
    /\ event # None
    /\ event[1].op = "downstream"
    /\ event[1].step = "response"
    /\ event[1].kind = "obo"
    /\ event[1].reqs = 2
    /\ event[1].result = Some(Err("OBO token error (400): invalid_grant"))
    /\ call[event[1].caller].pc = "idle"

\* C17: when a request was answered with a token, the entry of the requested
\* key holds that token with expiresAt = the instant of the write + the
\* lifetime the response declared, in ms, or + 3600 s when it declared none,
\* and the operation returns the token stored.
C17_ExpiryComputation ==
    (event # None /\ event[1].step = "response" /\ event[1].returned[1].ok) =>
        LET e == event[1]
            declared == FetchedFor.expires_in
            lifetime == IF declared = None THEN 3600 ELSE declared[1]
        IN /\ FetchedFor.accessToken = "at" \o ToString(issued)
           /\ e.cacheKey \in DOMAIN tokenCache
           /\ tokenCache[e.cacheKey].accessToken = FetchedFor.accessToken
           /\ tokenCache[e.cacheKey].expiresAt = now + lifetime * 1000
           /\ e.returned[1] = Ok(tokenCache[e.cacheKey].accessToken)

\* C17 witness: a response without expires_in arrived at instant 1000 and the
\* entry written expires at 1000 + 3600000
C17_Witness ==
    /\ event # None
    /\ event[1].step = "response"
    /\ event[1].returned[1].ok
    /\ FetchedFor.expires_in = None
    /\ now = 1000
    /\ tokenCache[event[1].cacheKey].expiresAt = 3601000
    /\ tokenCache[event[1].cacheKey].accessToken = event[1].returned[1].accessToken

(***************************************************************************)
(* Claims about the Authorizer (specification SpecAuth).  The claims are   *)
(* stated on the inputs of a finished attempt and on its result.           *)
(***************************************************************************)
AuthDone == authPc = "done" /\ authResult # None

\* the presented credentials of the attempt
InToken == IF authIn[1].connectAuth = None THEN None ELSE authIn[1].connectAuth[1].token
InPassword == IF authIn[1].connectAuth = None THEN None ELSE authIn[1].connectAuth[1].password
InOidcToken == IF authIn[1].connectAuth = None THEN None ELSE authIn[1].connectAuth[1].oidcToken

\* the configured and the presented secret of the configured static mode
InConfigured == IF authIn[1].auth.mode = "token" THEN authIn[1].auth.token ELSE authIn[1].auth.password
InPresented == IF authIn[1].auth.mode = "token" THEN InToken ELSE InPassword

\* the supplied verifier rejects / accepts / throws on a presented token
VerifierRejects ==
    /\ authIn[1].oidcVerifier # None
    /\ ~authIn[1].oidcVerifier[1].throws
    /\ authIn[1].oidcVerifier[1].opts.ok = Some(FALSE)
VerifierAccepts ==
    /\ authIn[1].oidcVerifier # None
    /\ ~authIn[1].oidcVerifier[1].throws
    /\ authIn[1].oidcVerifier[1].opts.ok # Some(FALSE)
VerifierThrows ==
    /\ authIn[1].oidcVerifier # None
    /\ authIn[1].oidcVerifier[1].throws

\* the reason / the user the supplied mock verifier answers with
VerifierReason ==
    IF authIn[1].oidcVerifier[1].opts.reason = None THEN "oidc_token_invalid"
    ELSE authIn[1].oidcVerifier[1].opts.reason[1]
VerifierUser ==
    IF authIn[1].oidcVerifier[1].opts.user = None THEN "oidc-user"
    ELSE authIn[1].oidcVerifier[1].opts.user[1]

\* the request arrives from an overlay address through the overlay proxy
InOverlayRequest ==
    /\ authIn[1].req # None
    /\ authIn[1].req[1].socket = Some("loopback")
    /\ authIn[1].req[1].headers # None
    /\ authIn[1].req[1].headers[1].forwardedFor = Some("overlay")
    /\ authIn[1].req[1].headers[1].forwardedHost = Some("overlay")

\* the identity-proxy shortcut accepts the attempt
ShortcutAccepts ==
    /\ authIn[1].auth.allowTailscale
    /\ InOverlayRequest
    /\ authIn[1].tailscaleWhois # None

\* C3 as stated: in mode token / password with the matching static credential
\* and an OIDC token that the verifier rejects, the result is ok with
\* method = mode.
C3_Original ==
    (/\ AuthDone
     /\ authIn[1].auth.mode \in {"token", "password"}
     /\ InConfigured # None
     /\ InPresented = InConfigured
     /\ InOidcToken # None
     /\ VerifierRejects)
    => authResult[1] = Accepted(authIn[1].auth.mode, None)

\* C3 amended: the same, for an attempt the identity-proxy shortcut does not
\* accept; both checks were evaluated, the OIDC check first.
C3_FallbackAfterOidcFailure ==
    (/\ AuthDone
     /\ authIn[1].auth.mode \in {"token", "password"}
     /\ InConfigured # None
     /\ InPresented = InConfigured
     /\ InOidcToken # None
     /\ VerifierRejects
     /\ ~ShortcutAccepts)
    => /\ authResult[1] = Accepted(authIn[1].auth.mode, None)
       /\ SelectSeq(authTrace, LAMBDA c : c # "tailscale") = <<"oidc", "mode">>

\* C3 witness: token mode, the right token and a rejected OIDC token
C3_Witness ==
    /\ AuthDone
    /\ authIn[1].auth.mode = "token"
    /\ InToken = Some("secret")
    /\ InOidcToken # None
    /\ VerifierRejects
    /\ authTrace = <<"oidc", "mode">>
    /\ authResult[1] = Accepted("token", None)

\* C4 as stated: a supplied verifier that accepts the presented OIDC token
\* makes the result ok with method = oidc and the verified user, whatever
\* the mode and the static credentials.
C4_Original ==
    (/\ AuthDone
     /\ InOidcToken # None
     /\ VerifierAccepts)
    => authResult[1] = Accepted("oidc", Some(VerifierUser))

\* C4 amended: the same, for an attempt the identity-proxy shortcut does not
\* accept; the mode-specific check is not evaluated.
C4_OidcWinsOnSuccess ==
    (/\ AuthDone
     /\ InOidcToken # None
     /\ VerifierAccepts
     /\ ~ShortcutAccepts)
    => /\ authResult[1] = Accepted("oidc", Some(VerifierUser))
       /\ SelectSeq(authTrace, LAMBDA c : c # "tailscale") = <<"oidc">>

\* C4 witness: token mode, a wrong token and an accepted OIDC token
C4_Witness ==
    /\ AuthDone
    /\ authIn[1].auth.mode = "token"
    /\ authIn[1].auth.token = Some("secret")
    /\ InToken = Some("wrong")
    /\ InOidcToken # None
    /\ VerifierAccepts
    /\ authResult[1] = Accepted("oidc", Some("oidc-user"))

\* C5: with allowTailscale, a request recognised as coming through the
\* overlay proxy and a lookup that returns an identity, the result is ok with
\* method = tailscale and user = the asserted login, in every mode and for
\* every presented credential set, and no other check was evaluated.
C5_IdentityProxyShortcut ==
    (AuthDone /\ ShortcutAccepts)
    => /\ authResult[1] = Accepted("tailscale", Some(authIn[1].tailscaleWhois[1].login))
       /\ authTrace = <<"tailscale">>

\* C5 witness: the shortcut accepted an attempt in mode = oidc that presented
\* nothing
C5_Witness ==
    /\ AuthDone
    /\ ShortcutAccepts
    /\ authIn[1].auth.mode = "oidc"
    /\ authIn[1].connectAuth = None
    /\ authResult[1].method = "tailscale"
    /\ authResult[1].user = Some("peter")

\* C6: in mode m in {token, password}, when neither the shortcut nor OIDC
\* accepted: m_missing_config if the secret is not configured, else m_missing
\* if the credential is absent, else m_mismatch if it differs, else ok with
\* method = m.
C6_ModeSpecificCheck ==
    (/\ AuthDone
     /\ authIn[1].auth.mode \in {"token", "password"}
     /\ authResult[1].kind # "threw"
     /\ authResult[1].method \notin {"tailscale", "oidc"})
    => LET m == authIn[1].auth.mode IN
       /\ InConfigured = None => authResult[1] = Rejected(m \o "_missing_config")
       /\ (InConfigured # None /\ InPresented = None) => authResult[1] = Rejected(m \o "_missing")
       /\ (InConfigured # None /\ InPresented # None /\ InPresented # InConfigured)
              => authResult[1] = Rejected(m \o "_mismatch")
       /\ (InConfigured # None /\ InPresented = InConfigured)
              => authResult[1] = Accepted(m, None)

\* C6 witness: token mode without a configured token, a token presented
C6_Witness ==
    /\ AuthDone
    /\ authIn[1].auth.mode = "token"
    /\ authIn[1].auth.token = None
    /\ InToken # None
    /\ authResult[1] = Rejected("token_missing_config")

\* C7 as stated: in mode = oidc, no presented oidcToken gives
\* oidc_token_missing, and a presented token that the verifier rejects gives
\* the verifier's reason.
C7_Original ==
    (AuthDone /\ authIn[1].auth.mode = "oidc")
    => /\ InOidcToken = None => authResult[1] = Rejected("oidc_token_missing")
       /\ (InOidcToken # None /\ VerifierRejects) => authResult[1] = Rejected(VerifierReason)

\* C7 amended: the same, for an attempt the identity-proxy shortcut does not
\* accept.
C7_OidcModeNoFallback ==
    (AuthDone /\ authIn[1].auth.mode = "oidc" /\ ~ShortcutAccepts)
    => /\ InOidcToken = None => authResult[1] = Rejected("oidc_token_missing")
       /\ (InOidcToken # None /\ VerifierRejects) => authResult[1] = Rejected(VerifierReason)

\* C7 witness: mode = oidc, static credentials that match the configured
\* ones, and an OIDC token rejected as expired
C7_Witness ==
    /\ AuthDone
    /\ authIn[1].auth.mode = "oidc"
    /\ authIn[1].auth.token = Some("secret")
    /\ InToken = Some("secret")
    /\ InOidcToken # None
    /\ VerifierRejects
    /\ authResult[1] = Rejected("oidc_token_expired")

\* C8: in mode token / password, when the OIDC check failed and the
\* mode-specific check failed too, the reason returned is the mode-specific
\* one (m_missing_config / m_missing / m_mismatch), not the verifier's.
C8_LastReasonWins ==
    (/\ AuthDone
     /\ authIn[1].auth.mode \in {"token", "password"}
     /\ InOidcToken # None
     /\ VerifierRejects
     /\ authResult[1].kind = "rejected")
    => LET m == authIn[1].auth.mode IN
       /\ SelectSeq(authTrace, LAMBDA c : c # "tailscale") = <<"oidc", "mode">>
       /\ authResult[1].reason =
              IF InConfigured = None THEN m \o "_missing_config"
              ELSE IF InPresented = None THEN m \o "_missing"
              ELSE m \o "_mismatch"
       /\ authResult[1].reason # VerifierReason

\* C8 witness: password mode, a wrong password and an OIDC token rejected as
\* expired
C8_Witness ==
    /\ AuthDone
    /\ authIn[1].auth.mode = "password"
    /\ InPassword = Some("wrong")
    /\ authOidc # None
    /\ authOidc[1].reason = "oidc_token_expired"
    /\ authTrace = <<"oidc", "mode">>
    /\ authResult[1] = Rejected("password_mismatch")

\* C9: every attempt ends with a tagged result, accepted with a method or
\* rejected with a reason, for every config, ConnectAuth (null too) and
\* request (missing, or without socket and headers); an exception leaves
\* authorize only when the supplied verifier itself throws.  An attempt that
\* has not ended can take its next step.
C9_Total ==
    /\ AuthDone =>
          /\ authResult[1].kind = "threw" => (VerifierThrows /\ InOidcToken # None)
          /\ authResult[1].kind = "accepted" =>
                authResult[1].method \in {"token", "password", "oidc", "tailscale"}
          /\ authResult[1].kind = "rejected" => authResult[1].reason # ""
          /\ authResult[1].kind \in {"accepted", "rejected", "threw"}
    /\ authPc \in {"tailscale", "oidc", "mode"} =>
          ENABLED (AuthTailscaleStep \/ AuthOidcStep \/ AuthModeStep)

\* C9 witness: a request object without socket and headers, and a null
\* ConnectAuth, got a tagged result
C9_Witness ==
    /\ AuthDone
    /\ authIn[1].req = Some([socket |-> None, headers |-> None])
    /\ authIn[1].connectAuth = None
    /\ authIn[1].auth.allowTailscale
    /\ authResult[1].kind = "rejected"

\* C30: authorizer soundness.  An attempt is accepted only if the check the
\* result names succeeded: method tailscale with allowTailscale set and an
\* identity returned by the lookup (user = its login); method oidc with a
\* verifier supplied, an oidcToken presented and accepted by the verifier
\* (user = the verified user); method token in mode token with the presented
\* token equal to the configured one; method password in mode password with
\* the presented password equal to the configured one.
C30_Soundness ==
    (AuthDone /\ authResult[1].kind = "accepted") =>
        \/ /\ authResult[1].method = "tailscale"
           /\ authIn[1].auth.allowTailscale
           /\ authIn[1].tailscaleWhois # None
           /\ authResult[1].user = Some(authIn[1].tailscaleWhois[1].login)
        \/ /\ authResult[1].method = "oidc"
           /\ InOidcToken # None
           /\ VerifierAccepts
           /\ authResult[1].user = Some(VerifierUser)
        \/ /\ authResult[1].method = "token"
           /\ authIn[1].auth.mode = "token"
           /\ authIn[1].auth.token # None
           /\ InToken = authIn[1].auth.token
        \/ /\ authResult[1].method = "password"
           /\ authIn[1].auth.mode = "password"
           /\ authIn[1].auth.password # None
           /\ InPassword = authIn[1].auth.password

\* C30 witness: the identity lookup found nothing and the verifier rejected
\* the OIDC token; the attempt is accepted by the password check alone
C30_Witness ==
    /\ AuthDone
    /\ authResult[1] = Accepted("password", None)
    /\ authIn[1].auth.allowTailscale
    /\ InOverlayRequest
    /\ authIn[1].tailscaleWhois = None
    /\ InOidcToken # None
    /\ VerifierRejects
    /\ authTrace = <<"tailscale", "oidc", "mode">>

\* the request reaches the service directly from a local address, without
\* the forwarding headers of the proxy
InDirectLocalRequest ==
    /\ authIn[1].req # None
    /\ authIn[1].req[1].socket = Some("loopback")
    /\ authIn[1].req[1].headers # None
    /\ authIn[1].req[1].headers[1].forwardedFor = None
    /\ authIn[1].req[1].headers[1].forwardedHost = None

\* C31: the identity-proxy shortcut is taken only under its preconditions.
\* When allowTailscale is false, or the request is a direct local one (even
\* with an overlay hostname in Host), the shortcut is not tried, the result
\* never has method tailscale, and the attempt is decided by the OIDC check
\* and the mode-specific check alone: an accepted OIDC token gives method
\* oidc, otherwise the attempt is accepted exactly when the configured static
\* mode has its secret configured and presented.
C31_ShortcutPreconditions ==
    (AuthDone /\ (~authIn[1].auth.allowTailscale \/ InDirectLocalRequest)) =>
        /\ authResult[1].method # "tailscale"
        /\ \A i \in 1..Len(authTrace) : authTrace[i] # "tailscale"
        /\ (InOidcToken # None /\ VerifierAccepts)
               => authResult[1] = Accepted("oidc", Some(VerifierUser))
        /\ (InOidcToken # None /\ VerifierThrows) => authResult[1] = Threw
        /\ ~(InOidcToken # None /\ (VerifierAccepts \/ VerifierThrows))
               => (authResult[1].kind = "accepted"
                      <=> /\ authIn[1].auth.mode \in {"token", "password"}
                          /\ InConfigured # None
                          /\ InPresented = InConfigured
                          /\ authResult[1] = Accepted(authIn[1].auth.mode, None))

\* C31 witness: allowTailscale is set and the lookup would return an
\* identity, but the request is a direct local one whose Host is an overlay
\* hostname; the token check decides
C31_Witness ==
    /\ AuthDone
    /\ authIn[1].auth.allowTailscale
    /\ InDirectLocalRequest
    /\ authIn[1].req[1].headers[1].host = "overlay"
    /\ authIn[1].tailscaleWhois # None
    /\ authResult[1] = Accepted("token", None)
    /\ authTrace = <<"mode">>

(***************************************************************************)
(* Claims about the OidcVerifier (specification SpecOidc).  They are       *)
(* stated on a verify call that has completed: verifyCall holds its token, *)
(* the key set jwtVerify used, the instant of the validation, the result.  *)
(***************************************************************************)
VerifyDone == verifyCall.pc = "done" /\ verifyCall.result # None

VToken == verifyCall.token[1]
VPayload == verifyCall.token[1].payload
VResult == verifyCall.result[1]
VConfig == oidcVerifier.config[1]

\* the token is a JWT signed by the key of the key set used that its key id
\* names
SignedByKeyOfSet ==
    /\ VToken.form = "jws"
    /\ verifyCall.keys # None
    /\ \E k \in verifyCall.keys[1] : k.kid = VToken.kid /\ k.pair = VToken.signedWith

\* iss is the configured issuer without its trailing slashes, aud the audience
IssuerAndAudienceMatch ==
    /\ VPayload.iss = StripTrailingSlashes(VConfig.issuer)
    /\ VPayload.aud = VConfig.audience

\* exp lies after the second of the validation
Unexpired == VPayload.exp > verifyCall.at \div 1000

\* the configured user claim of the payload
VUserClaim == VPayload[IF VConfig.userClaim = None THEN "sub" ELSE VConfig.userClaim[1]]

NoAllowlist == VConfig.allowedDomains = None /\ VConfig.allowedEmails = None

\* C18 as stated: a correctly signed, unexpired assertion with the right
\* issuer and audience whose user claim is a non-empty string is accepted,
\* when no allowlist is configured, with user equal to the claim's value.
C18_Original ==
    (/\ VerifyDone
     /\ SignedByKeyOfSet
     /\ Unexpired
     /\ IssuerAndAudienceMatch
     /\ VUserClaim # None /\ VUserClaim[1].type = "string" /\ VUserClaim[1].text # <<>>
     /\ NoAllowlist)
    => VResult = VerifyOk(VUserClaim[1].text, VPayload)

\* C18: a correctly signed, unexpired assertion with the right issuer and
\* audience, whose nbf (if any) is not in the future and whose user claim is
\* a string that is not empty once trimmed, is accepted, when no allowlist is
\* configured, with user equal to the trimmed claim and claims equal to the
\* whole payload.
C18_ValidAccepted ==
    (/\ VerifyDone
     /\ SignedByKeyOfSet
     /\ Unexpired
     /\ VPayload.nbf = None \/ VPayload.nbf[1] <= verifyCall.at \div 1000
     /\ IssuerAndAudienceMatch
     /\ VUserClaim # None /\ VUserClaim[1].type = "string" /\ Trim(VUserClaim[1].text) # <<>>
     /\ NoAllowlist)
    => VResult = VerifyOk(Trim(VUserClaim[1].text), VPayload)

\* C18 witness: a valid token whose sub is " u1 " was accepted as user "u1"
\* by a verifier with no allowlist
C18_Witness ==
    /\ VerifyDone
    /\ SignedByKeyOfSet
    /\ NoAllowlist
    /\ VConfig.userClaim = None
    /\ VPayload.sub = StringClaim(<<" ", "u", "1", " ">>)
    /\ VResult.ok
    /\ VResult.user = <<"u", "1">>
    /\ VResult.claims = Some(VPayload)

\* the failures of the cryptographic validation of the completed call, in the
\* order jwtVerify detects them: no JWT, no key set, no key for the key id,
\* a signature the selected key does not verify, a wrong issuer or audience
\* or an nbf in the future, an exp that is not in the future
Malformed == VToken.form # "jws"
NoKeyForToken ==
    \/ verifyCall.keys = None
    \/ \A k \in verifyCall.keys[1] : k.kid # VToken.kid
SignatureFails ==
    /\ verifyCall.keys # None
    /\ \E k \in verifyCall.keys[1] : k.kid = VToken.kid /\ k.pair # VToken.signedWith
ClaimsFail ==
    \/ ~IssuerAndAudienceMatch
    \/ VPayload.nbf # None /\ VPayload.nbf[1] > verifyCall.at \div 1000
Expired == VPayload.exp <= verifyCall.at \div 1000

CryptoReasons == {"oidc_token_expired", "oidc_signature_invalid", "oidc_token_invalid"}

\* C19: the reason verify returns for a failure of the cryptographic
\* validation is that of the failure jwtVerify detects: oidc_signature_invalid
\* for a signature the selected key does not verify, oidc_token_expired for
\* an assertion that passes every other check and whose exp is not in the
\* future (one second ago, or this very second), oidc_token_invalid for every
\* other failure (no JWT, no matching key, wrong issuer, wrong audience, not
\* yet valid); an assertion that passes the validation gets none of the three.
C19_CryptoReasons ==
    VerifyDone =>
        IF Malformed \/ NoKeyForToken
        THEN VResult = VerifyFailed("oidc_token_invalid")
        ELSE IF SignatureFails
        THEN VResult = VerifyFailed("oidc_signature_invalid")
        ELSE IF ClaimsFail
        THEN VResult = VerifyFailed("oidc_token_invalid")
        ELSE IF Expired
        THEN VResult = VerifyFailed("oidc_token_expired")
        ELSE VResult.reason \notin CryptoReasons

\* C19 witness: a token that is valid but for its exp, one second before the
\* validation, was rejected as expired
C19_Witness ==
    /\ VerifyDone
    /\ SignedByKeyOfSet
    /\ ~ClaimsFail
    /\ VPayload.exp = 0
    /\ verifyCall.at = 1000
    /\ VResult = VerifyFailed("oidc_token_expired")

\* the key pair that signed the token is that of no key of the key set
\* jwtVerify used (or no key set could be fetched)
SignedByForeignKey ==
    /\ VToken.form = "jws"
    /\ \/ verifyCall.keys = None
       \/ \A k \in verifyCall.keys[1] : k.pair # VToken.signedWith

\* C20: an assertion signed with a key that is not in the key set is
\* rejected, with oidc_signature_invalid or oidc_token_invalid, whatever its
\* key id and its claims are.
C20_ForeignKeyRejected ==
    (VerifyDone /\ SignedByForeignKey) =>
        /\ ~VResult.ok
        /\ VResult.claims = None
        /\ VResult.reason \in {"oidc_signature_invalid", "oidc_token_invalid"}

\* C20 witness: a token with the claims of a valid one, naming the provider's
\* key id but signed with a foreign key, was rejected
C20_Witness ==
    /\ VerifyDone
    /\ SignedByForeignKey
    /\ verifyCall.keys # None
    /\ VToken.kid = "test-key-1"
    /\ VToken.signedWith = "other"
    /\ VPayload = ValidPayload
    /\ VResult = VerifyFailed("oidc_signature_invalid")

\* the cryptographic validation of the completed call fails
CryptoFails == Malformed \/ NoKeyForToken \/ SignatureFails \/ ClaimsFail \/ Expired

\* the configured user claim is absent, no string, or empty once trimmed
UserClaimMissing ==
    \/ VUserClaim = None
    \/ VUserClaim[1].type # "string"
    \/ Trim(VUserClaim[1].text) = <<>>

\* an allowlist with entries is configured and the email claim is not in it
DomainCheckFails ==
    /\ HasEntries(VConfig.allowedDomains)
    /\ ~checkDomainRestriction(EmailOf(VPayload), VConfig.allowedDomains[1])
EmailCheckFails ==
    /\ HasEntries(VConfig.allowedEmails)
    /\ ~checkEmailAllowlist(EmailOf(VPayload), VConfig.allowedEmails[1])

AfterCryptoReasons ==
    {"oidc_user_claim_missing", "oidc_domain_not_allowed", "oidc_email_not_allowed"}

\* C21: verify reports the first failing check in the order cryptographic
\* validation, user claim, allowedDomains, allowedEmails.  An assertion that
\* fails the cryptographic validation gets one of its three reasons and never
\* oidc_user_claim_missing, oidc_domain_not_allowed or oidc_email_not_allowed;
\* one that passes it and lacks the user claim gets oidc_user_claim_missing
\* whatever its email is; one that has the user claim and fails the domain
\* check gets oidc_domain_not_allowed even if it also fails the email check;
\* oidc_email_not_allowed is left for the one that fails the email check only.
C21_CheckOrder ==
    VerifyDone =>
        IF CryptoFails
        THEN ~VResult.ok /\ VResult.reason \in CryptoReasons
        ELSE IF UserClaimMissing
        THEN VResult = VerifyFailed("oidc_user_claim_missing")
        ELSE IF DomainCheckFails
        THEN VResult = VerifyFailed("oidc_domain_not_allowed")
        ELSE IF EmailCheckFails
        THEN VResult = VerifyFailed("oidc_email_not_allowed")
        ELSE VResult.ok

\* C21 witness: a correctly signed token with no sub and no email, presented
\* to a verifier with both allowlists configured, was rejected for its
\* missing user claim
C21_Witness ==
    /\ VerifyDone
    /\ ~CryptoFails
    /\ VConfig.userClaim = None
    /\ VPayload.sub = None
    /\ VPayload.email = None
    /\ DomainCheckFails
    /\ EmailCheckFails
    /\ VResult = VerifyFailed("oidc_user_claim_missing")

\* the email claim of the completed call's payload is a string
VEmailIsString == VPayload.email # None /\ VPayload.email[1].type = "string"

\* membership of the email claim in the configured allowlists: the email is
\* some text, an @ and a listed domain; the email and a listed address are
\* the same text once both are in lower case
InAllowedDomains ==
    /\ VEmailIsString
    /\ LET email == VPayload.email[1].text
           domains == VConfig.allowedDomains[1]
       IN \E i \in 1..Len(domains) : \E n \in 0..Len(email) :
              SubSeq(email, n + 1, Len(email)) = <<"@">> \o domains[i]
InAllowedEmails ==
    /\ VEmailIsString
    /\ LET email == VPayload.email[1].text
           entries == VConfig.allowedEmails[1]
       IN \E i \in 1..Len(entries) : ToLowerCase(entries[i]) = ToLowerCase(email)

\* C22 as stated: whenever allowedDomains (resp. allowedEmails) is given in
\* the configuration, a cryptographically valid assertion with a user claim
\* passes that check if and only if its email is a member.
C22_Original ==
    (VerifyDone /\ ~CryptoFails /\ ~UserClaimMissing) =>
        /\ VConfig.allowedDomains # None =>
              (VResult = VerifyFailed("oidc_domain_not_allowed") <=> ~InAllowedDomains)
        /\ (VConfig.allowedEmails # None /\ VResult.reason # "oidc_domain_not_allowed") =>
              (VResult = VerifyFailed("oidc_email_not_allowed") <=> ~InAllowedEmails)

\* C22: with an allowedDomains (resp. allowedEmails) list that has at least
\* one entry, a cryptographically valid assertion with a user claim is
\* rejected with oidc_domain_not_allowed (resp., once past the domain check,
\* oidc_email_not_allowed) if and only if its email claim is not a member: a
\* non-matching email, an absent one and one that is no string are all
\* rejected with that reason; the assertion is accepted if and only if the
\* email is a member of every list that has entries.  A list without entries
\* restricts nothing.
C22_AllowlistMembership ==
    (VerifyDone /\ ~CryptoFails /\ ~UserClaimMissing) =>
        /\ HasEntries(VConfig.allowedDomains) =>
              (VResult = VerifyFailed("oidc_domain_not_allowed") <=> ~InAllowedDomains)
        /\ ~HasEntries(VConfig.allowedDomains) => VResult.reason # "oidc_domain_not_allowed"
        /\ (HasEntries(VConfig.allowedEmails) /\ VResult.reason # "oidc_domain_not_allowed") =>
              (VResult = VerifyFailed("oidc_email_not_allowed") <=> ~InAllowedEmails)
        /\ ~HasEntries(VConfig.allowedEmails) => VResult.reason # "oidc_email_not_allowed"
        /\ VResult.ok <=>
              /\ HasEntries(VConfig.allowedDomains) => InAllowedDomains
              /\ HasEntries(VConfig.allowedEmails) => InAllowedEmails

\* C22 witness: a correctly signed token with a user claim and no email was
\* rejected by a verifier restricted to the domain x
C22_Witness ==
    /\ VerifyDone
    /\ ~CryptoFails
    /\ ~UserClaimMissing
    /\ HasEntries(VConfig.allowedDomains)
    /\ VPayload.email = None
    /\ VResult = VerifyFailed("oidc_domain_not_allowed")

\* the lower-case form of one character, and equality of two texts up to the
\* case of their letters
LowerChar(c) == ToLowerCase(<<c>>)[1]
SameIgnoringCase(s, t) ==
    /\ Len(s) = Len(t)
    /\ \A j \in 1..Len(s) : LowerChar(s[j]) = LowerChar(t[j])

\* the text email is some text followed by @ and then exactly the text
\* domain, character by character
IsAtDomain(email, domain) ==
    /\ Len(email) > Len(domain)
    /\ email[Len(email) - Len(domain)] = "@"
    /\ \A j \in 1..Len(domain) : email[Len(email) - Len(domain) + j] = domain[j]

\* C23: for the email of a completed call and the lists its verifier was
\* configured with, checkEmailAllowlist holds iff the email equals a listed
\* address up to the case of the letters, and checkDomainRestriction holds
\* iff the email ends with @ followed by a listed domain, compared with the
\* case of the letters: A@X is in the list [A@x] and not in the domain x, and
\* neither a@yx nor a@y.x is in the domain x.  The outcome of verify is the
\* one these checks give.
C23_Matching ==
    (VerifyDone /\ VToken.form = "jws" /\ VEmailIsString) =>
        LET email == VPayload.email[1].text IN
        /\ HasEntries(VConfig.allowedEmails) =>
              (checkEmailAllowlist(Some(email), VConfig.allowedEmails[1])
                  <=> \E i \in 1..Len(VConfig.allowedEmails[1]) :
                          SameIgnoringCase(email, VConfig.allowedEmails[1][i]))
        /\ HasEntries(VConfig.allowedDomains) =>
              /\ checkDomainRestriction(Some(email), VConfig.allowedDomains[1])
                    <=> \E i \in 1..Len(VConfig.allowedDomains[1]) :
                            IsAtDomain(email, VConfig.allowedDomains[1][i])
              /\ (~CryptoFails /\ ~UserClaimMissing) =>
                    (VResult.reason = "oidc_domain_not_allowed"
                        <=> \A i \in 1..Len(VConfig.allowedDomains[1]) :
                                ~IsAtDomain(email, VConfig.allowedDomains[1][i]))
        /\ (/\ HasEntries(VConfig.allowedEmails)
            /\ ~CryptoFails /\ ~UserClaimMissing
            /\ VResult.reason # "oidc_domain_not_allowed") =>
              (VResult.ok <=> \E i \in 1..Len(VConfig.allowedEmails[1]) :
                                  SameIgnoringCase(email, VConfig.allowedEmails[1][i]))

\* C23 witness: a valid token with the email a@y.x, of a sub-domain of x, was
\* rejected by a verifier restricted to the domain x
C23_Witness ==
    /\ VerifyDone
    /\ ~CryptoFails
    /\ ~UserClaimMissing
    /\ VConfig.allowedDomains = Some(<<<<"x">>>>)
    /\ VPayload.email = StringClaim(<<"a", "@", "y", ".", "x">>)
    /\ VResult = VerifyFailed("oidc_domain_not_allowed")

\* the answer to the discovery request is a success with a jwks_uri
DiscoverySucceeded(resp) == resp.kind = "ok" /\ resp.jwks_uri # None

\* C24: a verifier configured with jwksUri is ready at once with that
\* location and no discovery request is ever sent for it; one configured
\* without it sends one request, to the issuer (without trailing slashes)
\* followed by /.well-known/openid-configuration, and its construction ends
\* with the jwks_uri of the document if the answer is a success that has one,
\* and with an error otherwise; verify is called on constructed verifiers
\* only, and a completed call holds a result, accepted or {ok: false, reason}
\* with one of the six reasons.
C24_KeySetLocation ==
    /\ oidcVerifier.config # None =>
          IF VConfig.jwksUri # None
          THEN /\ oidcVerifier.pc = "ready"
               /\ oidcVerifier.requested = None
               /\ oidcVerifier.response = None
               /\ oidcVerifier.jwksUri = VConfig.jwksUri
          ELSE /\ oidcVerifier.pc \in {"discovering", "ready", "failed"}
               /\ oidcVerifier.requested =
                     Some(StripTrailingSlashes(VConfig.issuer)
                              \o <<"/.well-known/openid-configuration">>)
               /\ oidcVerifier.pc = "discovering" <=> oidcVerifier.response = None
               /\ oidcVerifier.pc = "ready" =>
                     /\ DiscoverySucceeded(oidcVerifier.response[1])
                     /\ oidcVerifier.jwksUri = oidcVerifier.response[1].jwks_uri
                     /\ oidcVerifier.error = <<>>
               /\ oidcVerifier.pc = "failed" =>
                     /\ ~DiscoverySucceeded(oidcVerifier.response[1])
                     /\ oidcVerifier.error # <<>>
                     /\ oidcVerifier.jwksUri = None
    /\ verifyCall.pc # "idle" => oidcVerifier.pc = "ready"
    /\ verifyCall.pc = "done" =>
          /\ verifyCall.result # None
          /\ \/ /\ VResult.ok
                /\ VResult.reason = ""
                /\ VResult.claims = Some(VPayload)
             \/ VResult \in { VerifyFailed(reason) :
                                reason \in CryptoReasons \cup AfterCryptoReasons }

\* C24 witness: the construction of a verifier configured without jwksUri
\* failed on a discovery document that lacks jwks_uri
C24_Witness ==
    /\ oidcVerifier.pc = "failed"
    /\ VConfig.jwksUri = None
    /\ oidcVerifier.response = Some([kind |-> "ok", status |-> 200, jwks_uri |-> None])
    /\ oidcVerifier.error = <<"OIDC discovery: missing jwks_uri in ">> \o oidcVerifier.requested[1]

\* C16 as stated: every request in flight carries a timeout, every
\* construction of a verifier that waits for the discovery document comes to
\* an end (the verifier, or an error), every verify call that waits for the
\* key set completes, and every broker call in progress returns.
C16_Original ==
    /\ [](\A r \in PendingRequests : r.timeout # None)
    /\ (oidcVerifier.pc = "discovering") ~> (oidcVerifier.pc \in {"ready", "failed"})
    /\ (verifyCall.pc = "fetchingKeys") ~> (verifyCall.pc = "done")
    /\ \A p \in BrokerCallers : (call[p].pc # "idle") ~> (call[p].pc = "idle")

\* C16 witness: createOidcVerifier waits for the discovery document, and the
\* request it waits for was sent without a timeout
C16_Witness ==
    /\ oidcVerifier.pc = "discovering"
    /\ [request |-> "discovery", timeout |-> None] \in PendingRequests

(***************************************************************************)
(* Claims about the web UI (specification SpecUi).  uiEvent holds what the *)
(* step that led to the state did.                                         *)
(***************************************************************************)
UiDid(ops) == uiEvent # None /\ uiEvent[1].op \in ops

\* a step of the page's handleConnected: its start on either flow, and the
\* answers that run its callbacks
PageFlowOps == {"handleConnected", "handleOidcCallback", "handleOidcCallback settled"}

\* a valid token is at hand after the step: the stored one is valid, or the
\* step has just stored the tokens of a refresh or of a code exchange
OidcTokenAvailable ==
    \/ getValidOidcToken(sessionStorage, now) # None
    \/ uiEvent[1].stored

\* C25 as stated: on every path through handleConnected the gateway is
\* connected only when a valid OIDC token is at hand, and when a path ends
\* with none the browser is sent to the SSO login and the gateway is not
\* connected.
C25_Original ==
    /\ (uiEvent # None /\ uiEvent[1].connectGateway) => OidcTokenAvailable
    /\ (/\ \/ UiDid(PageFlowOps) /\ ~uiEvent[1].request
           \/ UiDid({"refreshOidcTokens settled"}) /\ uiEvent[1].by = "page"
        /\ ~OidcTokenAvailable)
          => (uiEvent[1].login /\ ~uiEvent[1].connectGateway /\ ~uiPage.connected)

\* C25 witness: the page was loaded on /callback with a state that is not the
\* stored one; handleOidcCallback resolved to null, nothing is stored, and
\* the gateway was connected
C25_Witness ==
    /\ UiDid({"handleOidcCallback"})
    /\ uiEvent[1].connectGateway
    /\ uiPage.connected
    /\ uiPage.callbacks # {}
    /\ sessionStorage.tokens = None

\* the refresh requests in flight
RefreshRequestsInFlight == {r \in tokenRequests : r.grant = "refresh_token"}

\* C26: at most one refresh request is in flight; while one is, refreshInFlight
\* holds its promise, and every caller that waits for a refresh waits for that
\* promise; a call made while it is in flight sends no request and waits for
\* it; when the request is answered every waiting caller goes on in that step,
\* with the one result of the request, and the mutex is free again.
C26_RefreshMutex ==
    [][/\ Cardinality(RefreshRequestsInFlight') <= 1
       /\ \A r \in RefreshRequestsInFlight' : refreshInFlight' = Some(r.by)
       /\ \A p \in UiCallers :
             uiCall'[p] # UiIdleCall =>
                \E r \in RefreshRequestsInFlight' : uiCall'[p].awaits = r.by
       /\ \A p \in UiCallers :
             (RefreshRequestsInFlight # {} /\ uiCall[p] = UiIdleCall /\ uiCall'[p] # UiIdleCall)
                => /\ tokenRequests' = tokenRequests
                   /\ refreshInFlight' = refreshInFlight
                   /\ uiEvent'[1].joined /\ ~uiEvent'[1].request
       /\ (RefreshRequestsInFlight # {} /\ RefreshRequestsInFlight' = {}) =>
             /\ refreshInFlight' = None
             /\ \A p \in UiCallers : uiCall'[p] = UiIdleCall
             /\ UiDid({"refreshOidcTokens settled"})' =>
                   uiEvent'[1].result \in {None, sessionStorage'.tokens}
      ]_vars

\* C26 witness: one refresh request is in flight and both callers wait for
\* its promise, one of them having joined it
C26_Witness ==
    /\ Cardinality(RefreshRequestsInFlight) = 1
    /\ uiCall["u1"] # UiIdleCall
    /\ uiCall["u2"] # UiIdleCall
    /\ uiCall["u1"].awaits = uiCall["u2"].awaits
    /\ uiEvent # None /\ uiEvent[1].joined

\* the code exchange requests in flight
CodeRequestsInFlight == {r \in tokenRequests : r.grant = "authorization_code"}

\* the step is a page load on /callback with a code and a state: the callback
\* with the state st has been read now and not before
FirstCallbackWith(st) == st \notin uiPage.callbacks /\ st \in uiPage'.callbacks

\* C27: handleOidcCallback sends the code exchange only if a PKCE state is
\* stored and its state value is the callback's, and stores tokens only when
\* the answer to that exchange is a success with id_token and access_token;
\* the callback that reads the PKCE state removes it, whatever follows; a
\* callback whose state an earlier callback came with sends no request and
\* stores nothing.
C27_PkceOneTime ==
    [][/\ UiDid({"handleOidcCallback"})' =>
             /\ sessionStorage'.tokens = sessionStorage.tokens
             /\ uiPage'.callbacks # uiPage.callbacks => sessionStorage'.pkce = None
             /\ uiEvent'[1].request <=>
                   /\ sessionStorage.pkce # None
                   /\ FirstCallbackWith(sessionStorage.pkce[1].state)
             /\ uiEvent'[1].request =>
                   CodeRequestsInFlight' =
                      { [grant |-> "authorization_code", by |-> "page", refresh_token |-> "",
                         code |-> "c1", verifier |-> sessionStorage.pkce[1].verifier] }
             /\ ~uiEvent'[1].request => CodeRequestsInFlight' = {}
       /\ UiDid({"handleOidcCallback settled"})' =>
             /\ CodeRequestsInFlight # {}
             /\ IF uiEvent'[1].stored
                THEN /\ sessionStorage'.tokens # None
                     /\ sessionStorage'.tokens = uiEvent'[1].result
                     /\ sessionStorage'.tokens[1].id_token = "id1"
                     /\ sessionStorage'.tokens[1].access_token = "at"
                ELSE /\ sessionStorage'.tokens = sessionStorage.tokens
                     /\ uiEvent'[1].result = None
       /\ (uiEvent' # None /\ sessionStorage'.tokens # sessionStorage.tokens) =>
             UiDid({"handleOidcCallback settled", "refreshOidcTokens settled"})'
      ]_vars

\* C27 witness: a callback came again with the state s1 that an earlier
\* callback had come with; it sent no request and nothing new was stored
C27_Witness ==
    /\ UiDid({"handleOidcCallback"})
    /\ ~uiEvent[1].request
    /\ StateOf(1) \in uiPage.callbacks
    /\ uiPage.logins = 1
    /\ sessionStorage.pkce = None
    /\ sessionStorage.tokens # None
    /\ sessionStorage.tokens[1].id_token = "id1"
    /\ tokenRequests = {}

\* the stored tokens are valid at the instant of the state: now is not later
\* than expires_at less 60 s
StoredTokenValid ==
    /\ sessionStorage.tokens # None
    /\ now <= sessionStorage.tokens[1].expires_at - 60000

\* the step gave p (a caller, or the page) the result of ensureValidOidcToken:
\* at once, or when the refresh it waited for was answered
EnsureReturnedTo(p) ==
    \/ /\ UiDid({"ensureValidOidcToken"})' /\ uiEvent'[1].by = p
       /\ uiCall'[p] = UiIdleCall
    \/ /\ UiDid({"refreshOidcTokens settled"})'
       /\ uiCall[p].op = "ensureValidOidcToken" /\ uiCall[p].awaits = uiEvent'[1].by

\* C28 as stated: getValidOidcToken gives the stored id_token iff tokens are
\* stored and now is not later than expires_at less 60 s, else null;
\* ensureValidOidcToken gives that token with no request when it is valid,
\* else the id_token of a refresh or null; and no token ensureValidOidcToken
\* gives is expired or within 60 s of its expiry.
C28_Original ==
    [][/\ UiDid({"getValidOidcToken"})' =>
             uiEvent'[1].result = (IF StoredTokenValid'
                                   THEN Some(sessionStorage'.tokens[1].id_token) ELSE None)
       /\ \A p \in UiCallers :
             (UiDid({"ensureValidOidcToken"})' /\ uiEvent'[1].by = p /\ StoredTokenValid) =>
                /\ uiEvent'[1].result = Some(sessionStorage.tokens[1].id_token)
                /\ tokenRequests' = tokenRequests
                /\ uiCall'[p] = UiIdleCall
       /\ \A p \in UiCallers :
             (EnsureReturnedTo(p) /\ uiEvent'[1].result # None) => StoredTokenValid'
       /\ (UiDid({"handleConnected", "refreshOidcTokens settled"})'
             /\ uiEvent'[1].connectGateway) => StoredTokenValid'
      ]_vars

\* C28 witness: the refresh that ensureValidOidcToken waited for was answered
\* with a token that lives 30 s; its id_token was returned to the page, which
\* connected the gateway
C28_Witness ==
    /\ UiDid({"refreshOidcTokens settled"})
    /\ uiEvent[1].by = "page"
    /\ uiEvent[1].connectGateway
    /\ uiEvent[1].result = sessionStorage.tokens
    /\ sessionStorage.tokens[1].expires_at = now + 30000
    /\ ~StoredTokenValid

(***************************************************************************)
(* Claims about the search tool's service token (specification SpecSsa).   *)
(***************************************************************************)
\* getSSAToken has just returned the cached token to p
SsaServedFromCache(p) == ssaCall[p].last # None /\ ssaCall[p].last[1].kind = "cache"

\* C29 as stated: the cached service token is returned only while more than
\* five minutes remain before its expiresAt; a call that finds less goes to
\* the token endpoint.
C29_Original ==
    [][\A p \in SsaCallers :
          (ssaCall[p].pc = "idle" /\ ssaCall'[p] # ssaCall[p] /\ now' = now) =>
             IF ssaTokenCache # None /\ ssaTokenCache[1].expiresAt > now + 5 * 60000
             THEN /\ SsaServedFromCache(p)'
                  /\ ssaCall'[p].last[1].token = ssaTokenCache[1].token
             ELSE ~SsaServedFromCache(p)'
      ]_vars

\* C29 witness: the cached token was returned five minutes before its expiry
C29_Witness ==
    \E p \in SsaCallers :
        /\ SsaServedFromCache(p)
        /\ ssaTokenCache[1].expiresAt = now + 5 * 60000
        /\ ssaCall[p].last[1].token = ssaTokenCache[1].token

(***************************************************************************)
(* Further claims about the web UI (specification SpecUi).                 *)
(***************************************************************************)
\* a refresh token is stored
RefreshTokenStored ==
    /\ loadOidcTokens(sessionStorage) # None
    /\ loadOidcTokens(sessionStorage)[1].refresh_token # None

\* C33: the in-flight marker of refreshOidcTokens is cleared whenever the
\* request finishes (success, error status, malformed body or exception), so
\* the marker is set only while a refresh request is in flight, and a call of
\* refreshOidcTokens made when none is in flight, with a refresh token
\* stored, sends a new request instead of returning a finished result.
C33_MarkerCleared ==
    [][/\ UiDid({"refreshOidcTokens settled"})' => refreshInFlight' = None
       /\ (refreshInFlight' # None) => (RefreshRequestsInFlight' # {})
       /\ (/\ RefreshRequestsInFlight = {}
           /\ RefreshTokenStored
           /\ UiDid({"refreshOidcTokens"})')
          => /\ uiEvent'[1].request
             /\ ~uiEvent'[1].joined
             /\ Cardinality(RefreshRequestsInFlight') = 1]_vars

\* C33 witness: a refresh request has just failed; the marker is cleared and
\* a refresh token is still stored
C33_Witness ==
    /\ UiDid({"refreshOidcTokens settled"})
    /\ uiEvent[1].result = None
    /\ uiEvent[1].by \in UiCallers
    /\ refreshInFlight = None
    /\ RefreshTokenStored

\* the token response is a success that carries both tokens
ResponseHasTokens(resp) ==
    resp.kind = "ok" /\ resp.status = 200 /\ resp.id_token # None /\ resp.access_token # None

\* C36: a failed refreshOidcTokens (no refresh token stored, a non-success
\* response, a response without id_token or access_token, a network error)
\* returns null and leaves the stored tokens as they are; a successful one
\* returns and stores the new id and access tokens with expires_at = now +
\* (expires_in or 3600) seconds, and the previous refresh token (the stored
\* one the call read and sent) when the response has none.
C36_RefreshFrame ==
    [][/\ (UiDid({"refreshOidcTokens"})' /\ ~RefreshTokenStored /\ refreshInFlight = None)
          => /\ uiEvent'[1].result = None
             /\ ~uiEvent'[1].request
             /\ sessionStorage' = sessionStorage
             /\ tokenRequests' = tokenRequests
       /\ UiDid({"refreshOidcTokens settled"})' =>
             LET resp == uiEvent'[1].response[1]
                 before == loadOidcTokens(sessionStorage)
                 after == loadOidcTokens(sessionStorage')
                 sent == CHOOSE r \in RefreshRequestsInFlight : r.by = uiEvent'[1].by
             IN IF ResponseHasTokens(resp)
                THEN /\ uiEvent'[1].result = after
                     /\ after # None
                     /\ after[1].id_token = resp.id_token[1]
                     /\ after[1].access_token = resp.access_token[1]
                     /\ after[1].expires_at = now + 1000 * (IF resp.expires_in = None THEN 3600
                                                            ELSE resp.expires_in[1])
                     /\ after[1].refresh_token = IF resp.refresh_token = None
                                                 THEN Some(sent.refresh_token)
                                                 ELSE resp.refresh_token
                ELSE /\ uiEvent'[1].result = None
                     /\ after = before]_vars

\* C36 witness: a refresh is answered with new tokens but neither a refresh
\* token nor expires_in: the stored refresh token is kept and the tokens
\* expire in 3600 s
C36_Witness ==
    /\ UiDid({"refreshOidcTokens settled"})
    /\ uiEvent[1].response[1].kind = "ok"
    /\ uiEvent[1].response[1].refresh_token = None
    /\ uiEvent[1].response[1].expires_in = None
    /\ loadOidcTokens(sessionStorage)
           = Some([id_token |-> "id2", access_token |-> "at", refresh_token |-> Some("rt1"),
                   expires_at |-> now + 3600000])
    /\ now > 0

\* the page was loaded at /callback with code and state parameters
IsCallbackPage == uiPage.location.path = "/callback" /\ uiPage.location.query

\* the page has synced its tab, connected the gateway, armed the refresh
\* timer or started polling
PageStarted ==
    \/ uiPage.synced
    \/ uiPage.connected
    \/ uiPage.polling
    \/ timers.pending # {}
    \/ refreshTimer # None

\* C37: on a callback page (/callback with code and state) the code exchange
\* of handleOidcCallback is finished before syncTabWithLocation runs, and
\* connectGateway, scheduleTokenRefresh and polling start only after it: none
\* of them has happened while the exchange is in flight, and they happen in
\* the step in which handleOidcCallback settles.  On any other page
\* handleOidcCallback is not invoked: no PKCE state is read and no code is
\* exchanged.
C37_CallbackFirst ==
    [][/\ (IsCallbackPage' /\ CodeRequestsInFlight' # {}) => ~PageStarted'
       /\ uiPage'.pc = "awaitCallback" => (IsCallbackPage' /\ CodeRequestsInFlight' # {})
       /\ (IsCallbackPage' /\ uiPage'.synced /\ ~(IsCallbackPage /\ uiPage.synced))
             => /\ CodeRequestsInFlight' = {}
                /\ \/ UiDid({"handleOidcCallback settled"})'
                   \/ UiDid({"handleOidcCallback"})' /\ ~uiEvent'[1].request
                /\ uiPage'.connected /\ uiPage'.polling
       /\ ~IsCallbackPage' =>
             /\ ~UiDid({"handleOidcCallback", "handleOidcCallback settled"})'
             /\ CodeRequestsInFlight' = {}
             /\ UiDid({"handleConnected"})' =>
                    /\ uiPage'.callbacks = uiPage.callbacks
                    /\ sessionStorage'.pkce = sessionStorage.pkce \/ uiEvent'[1].login]_vars

\* C37 witness: the code exchange of a callback page has been answered with
\* tokens; only now the tab is synced, the timer armed, the gateway connected
\* and polling started
C37_Witness ==
    /\ IsCallbackPage
    /\ UiDid({"handleOidcCallback settled"})
    /\ uiEvent[1].stored
    /\ uiPage.synced /\ uiPage.connected /\ uiPage.polling
    /\ timers.app = "scheduled"
    /\ CodeRequestsInFlight = {}

(***************************************************************************)
(* Claims about the proactive refresh timer (specification SpecTimer).     *)
(* timers.app holds what the application asked for last (scheduled or      *)
(* cancelled); timerEvent holds the timer calls of the last step.          *)
(***************************************************************************)
\* C32 as stated: after cancelTokenRefresh no refresh timer is pending, and
\* none is armed again until the application itself calls
\* scheduleTokenRefresh, also when the cancel came while a timer-triggered
\* refresh was in flight that succeeds later.
C32_Original == timers.app = "cancelled" => timers.pending = {}

\* C32 witness: the timer has fired and its refresh request is in flight when
\* the application cancels the timer
C32_Witness ==
    /\ timers.app = "cancelled"
    /\ timers.pending = {}
    /\ Len(timers.running) = 1
    /\ refreshInFlight = Some("timer")
    /\ \E r \in tokenRequests : r.grant = "refresh_token" /\ r.by = "timer"

\* the positions of the calls `op` in a timer log
LogCalls(log, op) == {k \in 1..Len(log) : log[k].op = op}

\* the timer callbacks that went on in this step
ResumedCallbacks ==
    {timers.running[i] : i \in 1..Len(timers.running)}
        \ {timers'.running[i] : i \in 1..Len(timers'.running)}

ExpectedDelay(storage, t) ==
    LET left == loadOidcTokens(storage)[1].expires_at - t - 5 * 60000 IN
    IF left > 0 THEN left ELSE 0

\* C35: scheduleTokenRefresh cancels the pending timer before it arms a new
\* one, so at most one refresh timer is pending at any time; a timer is armed
\* only if a refresh token is stored (and then the page's call arms one), and
\* its delay is max(0, expires_at - now - 5 minutes).  A page load starts
\* with no timer: those of the document before are gone with it.
C35_SingleTimer ==
    [][LET log == timerEvent'
           armed == LogCalls(log, "setTimeout")
       IN /\ Cardinality(timers'.pending) <= 1
          /\ \A k \in armed :
                /\ RefreshTokenStored'
                /\ log[k].delay = ExpectedDelay(sessionStorage', now)
                /\ ~UiDid({"handleConnected", "handleOidcCallback"})' =>
                       \A tm \in timers.pending :
                           \E c \in LogCalls(log, "clearTimeout") : c < k /\ log[c].id = tm.id
          /\ armed # {} =>
                \E k \in armed :
                    timers'.pending = {[id |-> log[k].id, due |-> now + log[k].delay, cb |-> cb] :
                                           cb \in {tm.cb : tm \in timers'.pending}}
          /\ (UiDid({"handleConnected", "handleOidcCallback", "handleOidcCallback settled",
                     "refreshOidcTokens settled"})'
              /\ uiEvent'[1].connectGateway /\ RefreshTokenStored')
             => armed # {}]_vars

\* C35 witness: the application calls scheduleTokenRefresh while the timer of
\* the page is pending: that timer is cleared and a new one is armed to fire
\* five minutes before the expiry
C35_Witness ==
    /\ now = 0
    /\ timers.app = "scheduled"
    /\ Len(timerEvent) = 2
    /\ timerEvent[1].op = "clearTimeout"
    /\ timerEvent[2] = TimerCall("setTimeout", timerEvent[1].id, 3300000, "")
    /\ timers.pending = {[id |-> timerEvent[2].id, due |-> 3300000, cb |-> TRUE]}

(***************************************************************************)
(* Downstream tools: the calls of execute (specification SpecTools).  A    *)
(* tool exists only when isAzureOBOConfigured() held at its creation.      *)
(***************************************************************************)
\* the caller slot of the broker the tools use
ToolCallers == {"c1"}

\* what options.getRefreshToken() does: it throws, or it returns null, an
\* empty string or the refresh token of the user
GetRefreshTokenOutcomes ==
    { [throws |-> TRUE, value |-> None] }
    \cup { [throws |-> FALSE, value |-> v] :
               v \in {None, Some("")} \cup {Some(RefreshTokenOf[p]) : p \in ToolCallers} }

\* args.action as the calls explored give it: for each tool an action whose
\* handler takes no checked parameter, the actions the tools differ in, and
\* a string that is no action of the tool
ToolActionInputs(tool) ==
    (ToolActions(tool) \cap {"list_locations", "book_desk", "search_rooms",
                             "check_availability", "book_room", "list_emails",
                             "read_email", "search_people", "get_profile"})
    \cup {"unknown_action"}

\* the other parameters of args: accepted by the handler or rejected by it
\* (for the handlers that check them); for search_people, a query is given
\* or not
ToolArgs(action) ==
    IF action \in CheckedActions THEN {"given", "rejected"}
    ELSE IF action = "search_people" THEN {"given", "absent"}
    ELSE {"given"}

\* what the token endpoint answers to a request of a tool's broker call: a
\* token that is usable for one second, or a rejection
ToolTokenResponses(tok) ==
    { resp \in TokenResponses(tok) :
          \/ resp.kind = "ok" /\ resp.access_token = Some(tok) /\ resp.expires_in # None
          \/ resp.kind = "http" /\ resp.status = 400 }

\* what a request to a downstream API ends with: a 2xx response, another
\* status, or an exception of fetch / res.json()
ApiResponses == {"ok", "http", "throw"}

\* !refreshToken
NoRefreshToken(getter) == getter.value = None \/ getter.value = Some("")

\* execute up to its first await of the network: it returned or threw, it
\* sent the room search, or (pc "token") it calls acquireDownstreamToken
ExecuteStart(t) ==
    LET checked == IF NoRefreshToken(t.getter)
                   THEN ToolReturned(t, "not_authenticated", "")
                   ELSE [t EXCEPT !.pc = "token"]
    IN IF t.tool = "nfd_desk"
       THEN (IF t.getter.throws THEN ToolThrew(t) ELSE checked)
       ELSE IF t.tool = "meeting_room" /\ t.action = "search_rooms"
       THEN ToolFetch(t, None)
       ELSE IF t.getter.throws
       THEN ToolReturned(t, ToolErrorLabel(t.tool), "")
       ELSE checked

\* the handler after the response to its request: callNfdApi / callGraphApi
\* throw on a status that is not ok, graphGet returns { ok: false } and
\* handleSearchPeople tries its next strategy with the same token
AfterApiResponse(t, resp) ==
    IF resp = "throw" THEN ToolReturned(t, ToolErrorLabel(t.tool), "")
    ELSE IF resp = "ok" THEN ToolReturned(t, "", "result")
    ELSE IF t.tool # "people_search" THEN ToolReturned(t, ToolErrorLabel(t.tool), "")
    ELSE IF t.action = "get_profile" THEN ToolReturned(t, "", "profile_error")
    ELSE IF Len(t.sent) < MaxRequestsOf(t.action, t.args)
    THEN ToolFetch(t, Some(t.tokenResult[1].accessToken))
    ELSE ToolReturned(t, "", "people_search_unavailable")

\* execute(_toolCallId, args) of tool, up to its first await of the network
ToolExecute(p, tool, action, args, getter) ==
    /\ toolCall.pc = "idle"
    /\ call[p].pc = "idle"
    /\ ~NotConfigured
    /\ LET t == ExecuteStart([IdleTool EXCEPT !.caller = p, !.tool = tool,
                                  !.action = action, !.args = args, !.getter = getter])
       IN IF t.pc = "token"
          THEN /\ acquireDownstreamToken(p, getter.value[1], ToolScopes(tool))
               /\ toolCall' = [t EXCEPT !.reqs = call'[p].reqs]
          ELSE /\ toolCall' = t
               /\ UNCHANGED brokerVars
               /\ UNCHANGED authVars
               /\ UNCHANGED oidcVars
               /\ UNCHANGED uiVars
               /\ UNCHANGED ssaVars

\* the downstream API answers the request of the handler
ToolApiResponds(resp) ==
    /\ toolCall.pc = "api"
    /\ toolCall' = AfterApiResponse(toolCall, resp)
    /\ UNCHANGED brokerVars
    /\ UNCHANGED authVars
    /\ UNCHANGED oidcVars
    /\ UNCHANGED uiVars
    /\ UNCHANGED ssaVars

InitTools == InitBroker

\* the calls of execute follow one another; the clock advances between
\* them; the parameters of a handler vary in the calls that reach a handler
NextTools ==
    \/ \E p \in ToolCallers, tool \in Tools, getter \in GetRefreshTokenOutcomes :
           \E action \in ToolActionInputs(tool) : \E args \in ToolArgs(action) :
               /\ (getter.throws \/ NoRefreshToken(getter)) => args = "given"
               /\ ToolExecute(p, tool, action, args, getter)
    \/ \E p \in ToolCallers : \E resp \in ToolTokenResponses(NextToken) :
           /\ resp.access_token \notin {None, Some("")} => issued < MaxIssued
           /\ TokenEndpointResponds(p, resp)
    \/ \E p \in ToolCallers : AcquireDownstreamTokenResume(p)
    \/ \E resp \in ApiResponses : ToolApiResponds(resp)
    \/ toolCall.pc = "idle" /\ Tick

SpecTools == InitTools /\ [][NextTools]_vars

(***************************************************************************)
(* Claims about the downstream tools (specification SpecTools)             *)
(***************************************************************************)
\* the calls that need a downstream token: every call of nfd_desk,
\* outlook_email and people_search, and those of meeting_room other than
\* the room search
OboBacked(t) ==
    /\ t.tool \in Tools
    /\ ~(t.tool = "meeting_room" /\ t.action = "search_rooms")

ToolError(error) == Some([thrown |-> FALSE, error |-> error, body |-> ""])

SlashVariants(issuer) ==
    LET base == StripTrailingSlashes(issuer)
    IN {base, base \o <<"/">>, base \o <<"/", "/">>}

\* the key set the completed verify call used (none for text that is no JWT)
KeysUsed == IF verifyCall.keys = None THEN {} ELSE verifyCall.keys[1]

\* C39: the issuer verify expects is the configured issuer without its
\* trailing slashes: an accepted token carries exactly that iss, and the
\* verifiers configured with that issuer followed by no, one or two slashes
\* (and otherwise the same) return for the token, the key set and the
\* instant of a completed call the result the call returned; the discovery
\* request goes to the same URL for all of them, the issuer without its
\* trailing slashes followed by /.well-known/openid-configuration.
C39_IssuerNormalization ==
    /\ (VerifyDone /\ verifyCall.at = now /\ (verifyCall.keys # None \/ VToken.form # "jws")) =>
          /\ VResult.ok => VPayload.iss = StripTrailingSlashes(VConfig.issuer)
          /\ \A other \in SlashVariants(VConfig.issuer) :
                 VerifyWithKeys([VConfig EXCEPT !.issuer = other], VToken, KeysUsed) = VResult
    /\ oidcVerifier.requested # None =>
          \A other \in SlashVariants(VConfig.issuer) :
              /\ WellKnownUrl(other) = oidcVerifier.requested[1]
              /\ oidcVerifier.requested[1] =
                     StripTrailingSlashes(other) \o <<"/.well-known/openid-configuration">>

\* C39 witness: a verifier configured with a trailing slash discovered its
\* key-set location and accepted a token whose iss has no trailing slash
C39_Witness ==
    /\ VerifyDone /\ verifyCall.at = now
    /\ VConfig.issuer = TEST_ISSUER \o <<"/">>
    /\ oidcVerifier.requested = Some(TEST_ISSUER \o <<"/.well-known/openid-configuration">>)
    /\ VResult.ok
    /\ VPayload.iss = TEST_ISSUER

====
